---- MODULE Spec2Model ----
(***************************************************************************)
(* Attendance marking in the college-attendance client: the student-side   *)
(* eligibility predicates (student dashboard, student lessons list), the    *)
(* mark requests of the student and teacher pages and the bulk attendance   *)
(* loop.                                                                     *)
(*                                                                           *)
(* Time is the wall clock in whole minutes since a Sunday 00:00 (local      *)
(* time); Date.getTime() differences are taken in minutes.  An optional     *)
(* field of a JSON object is a sequence of length 0 (missing, null) or 1.   *)
(***************************************************************************)
EXTENDS Integers, Sequences, FiniteSets, TLC

VARIABLES
    now,                \* the wall clock (absolute minutes)
    lesson,             \* window specification: the lesson under evaluation
    windowOpen,         \* window specification: isAttendanceWindowOpen(lesson) as rendered
    hasMarked,          \* window specification: hasMarkedAttendance(lesson) as rendered
    canMark,            \* window specification: canMarkAttendance(lesson) as rendered
    page,               \* the page component the router has mounted
    serverRecords,      \* the attendance records the server holds
    inflight,           \* POST /api/attendance requests awaiting their response
    posts,              \* every POST /api/attendance issued so far, in order
    failures,           \* number of mark requests that have failed so far
    toasts,             \* toasts shown so far, by kind
    selectedLesson,     \* useState selectedLesson (student dashboard, student lessons, teacher dashboard)
    attendanceMarked,   \* student dashboard: useState attendanceMarked
    attendanceError,    \* student dashboard: useState attendanceError
    attendanceRecords,  \* useQuery data of /api/attendance (student dashboard, bulk attendance)
    timers,             \* student dashboard: pending 2000 ms timeouts
    attendanceDialogOpen, \* student lessons: useState attendanceDialogOpen
    todaysAttendance,   \* student lessons: ids of todaysLessons that carry lesson.attendance
    isPending,          \* markAttendanceMutation.isPending (student lessons, bulk attendance)
    refetchPending,     \* a refetch started by invalidateQueries / refetch has not resolved yet
    rendered,           \* student lessons: lessons whose Mark Present button the last render shows
    lessonId,           \* bulk attendance: useState lessonId
    attendanceData,     \* bulk attendance: useState attendanceData
    isSaving,           \* bulk attendance: useState isSaving
    forceAttendance,    \* bulk attendance: useState forceAttendance
    isLoading,          \* bulk attendance: lessonLoading || attendanceLoading || studentsLoading
    runs,               \* bulk attendance: the invocations of saveAllAttendance, in order
    currentMutation,    \* bulk attendance: the request the mutation observer follows
    selectedStudent,    \* teacher attendance records: useState selectedStudent
    markDialogOpen,     \* teacher attendance records: useState markDialogOpen
    clicks,             \* bulk attendance: number of clicks so far on the row buttons, the checkbox and Save All
    location,           \* router: the path of the address bar
    session,            \* router: the role of the session the server holds, if any
    authLoading,        \* router: useAuth().isLoading
    user,               \* router: useAuth().user, its role if any
    shown,              \* router: the component the Switch renders
    redirects,           \* router: redirects followed since the address was opened
    adminRecords,    \* admin attendance records: useQuery data of /api/attendance for the filters
    currentPage,    \* admin attendance records: useState currentPage
    exported,    \* admin attendance records: the data handed to the last export, if any
    exportToast,    \* admin attendance records: the title of the last toast of an export
    registerForm,    \* auth page: the values of registerForm
    selectedDepartment,    \* auth page: useState selectedDepartment
    selectedLevel,    \* auth page: useState selectedLevel
    registerRequests,    \* auth page: the arguments of registerMutation.mutate so far
    formPage,    \* forms: the page of the form
    stored,    \* forms: the record the server holds
    formData,    \* forms: the data of the page's query, if resolved
    formValues,    \* forms: the values of useForm
    dirtyFields,    \* forms: the fields the user has edited
    isFormDirty,    \* system settings: useState isFormDirty
    formErrors,    \* forms: the last submit left field errors
    updates,    \* forms: the payloads handed to the update request so far
    submits,    \* forms: number of submits so far
    teacherDepartments,    \* admin teachers: the additional departments the server holds for the teacher
    deptCall,    \* admin teachers: the running or last call of updateTeacherDepartments
    deptLog,    \* admin teachers: the DELETE and POST requests of that call, in order
    deptCalls,    \* admin teachers: number of calls so far
    backups,    \* backups tab: the file names of the listed backups
    confirmPrompt,    \* backups tab: the file name window.confirm is asking about, or <<>>
    answers,    \* backups tab: the answers given to window.confirm, in order
    deleteRequests,    \* backups tab: the file names DELETE was requested for, in order
    deletePending,    \* backups tab: the DELETE requests not settled yet
    modalMounted,    \* MarkAttendanceModal: a parent renders the component
    modalLesson,    \* MarkAttendanceModal: the lesson prop
    modalOpen,    \* MarkAttendanceModal: the isOpen prop
    isMarking,    \* MarkAttendanceModal: isMarking
    markInflight,    \* MarkAttendanceModal: mark requests not settled yet
    markRequests,    \* MarkAttendanceModal: mark requests submitted so far
    modalToast    \* MarkAttendanceModal: title of the last toast

winVars == <<lesson, windowOpen, hasMarked, canMark>>
netVars == <<serverRecords, inflight, posts, failures, toasts>>
dashVars == <<attendanceMarked, attendanceError, timers>>
listVars == <<attendanceDialogOpen, todaysAttendance, rendered>>
bulkVars == <<lessonId, attendanceData, isSaving, forceAttendance, isLoading, runs,
              currentMutation, clicks>>
tchVars == <<selectedStudent, markDialogOpen>>
routeVars == <<location, session, authLoading, user, shown, redirects>>
exportVars == <<adminRecords, currentPage, exported, exportToast>>
regVars == <<registerForm, selectedDepartment, selectedLevel, registerRequests>>
formVars == <<formPage, stored, formData, formValues, dirtyFields, isFormDirty, formErrors, updates, submits>>
deptVars == <<teacherDepartments, deptCall, deptLog, deptCalls>>
backupVars == <<backups, confirmPrompt, answers, deleteRequests, deletePending>>
modalVars == <<modalMounted, modalLesson, modalOpen, isMarking, markInflight, markRequests, modalToast>>
appVars == <<routeVars, exportVars, regVars, formVars, deptVars, backupVars, modalVars>>
restOfModal == <<routeVars, exportVars, regVars, formVars, deptVars, backupVars>>
restOfBackup == <<routeVars, exportVars, regVars, formVars, deptVars, modalVars>>
restOfDept == <<routeVars, exportVars, regVars, formVars, backupVars, modalVars>>
restOfForm == <<routeVars, exportVars, regVars, deptVars, backupVars, modalVars>>
restOfReg == <<routeVars, exportVars, formVars, deptVars, backupVars, modalVars>>
restOfExport == <<routeVars, regVars, formVars, deptVars, backupVars, modalVars>>
restOfRoute == <<exportVars, regVars, formVars, deptVars, backupVars, modalVars>>
pageVars == <<now, page, winVars, netVars, selectedLesson, attendanceRecords, isPending,
              refetchPending, dashVars, listVars, bulkVars, tchVars>>
vars == <<pageVars, appVars>>

-----------------------------------------------------------------------------
(* Program constants *)

MinutesPerDay == 1440
DaysPerWeek == 7
DefaultWindowDashboard == 30
DefaultWindowLessons == 15
InstantAgeMinutes == 1440

(* Bounds of the model *)

MaxNow == 2899
MaxLessonDay == 1

-----------------------------------------------------------------------------
(* JavaScript helpers *)

None == <<>>
Some(x) == <<x>>

\* `x || d` for an optional number: d when x is missing or 0
OrDefault(x, d) == IF x = None \/ x[1] = 0 THEN d ELSE x[1]

Max(a, b) == IF a >= b THEN a ELSE b

\* now.getHours() * 60 + now.getMinutes()
MinutesOfDay(t) == t % MinutesPerDay

\* now.getDay(), 0-6 for Sunday-Saturday
DayOf(t) == (t \div MinutesPerDay) % DaysPerWeek

NoToasts == [error |-> 0, success |-> 0, summary |-> 0]

\* The router before the application is opened
RouteIdle ==
    /\ location = "/"
    /\ session = None
    /\ authLoading = TRUE
    /\ user = None
    /\ shown = "AuthPage"
    /\ redirects = 0

\* The rest of the application while the attendance pages are examined
ExportIdle ==
    /\ adminRecords = <<>>
    /\ currentPage = 1
    /\ exported = None
    /\ exportToast = ""

RegIdle ==
    /\ registerForm = [fullName |-> <<>>, username |-> <<>>, departmentId |-> <<>>,
                        levelId |-> <<>>, classId |-> <<>>, password |-> <<>>,
                        confirmPassword |-> <<>>]
    /\ selectedDepartment = <<>>
    /\ selectedLevel = <<>>
    /\ registerRequests = <<>>

FormIdle ==
    /\ formPage = "none"
    /\ stored = <<>>
    /\ formData = None
    /\ formValues = <<>>
    /\ dirtyFields = {}
    /\ isFormDirty = FALSE
    /\ formErrors = FALSE
    /\ updates = <<>>
    /\ submits = 0

DeptIdle ==
    /\ teacherDepartments = {}
    /\ deptCall = [pc |-> "idle", requested |-> <<>>, current |-> <<>>, toRemove |-> <<>>,
                    toAdd |-> <<>>, result |-> "none", again |-> FALSE]
    /\ deptLog = <<>>
    /\ deptCalls = 0

BackupIdle ==
    /\ backups = {}
    /\ confirmPrompt = <<>>
    /\ answers = <<>>
    /\ deleteRequests = <<>>
    /\ deletePending = <<>>

ModalIdle ==
    /\ modalMounted = FALSE
    /\ modalLesson = <<>>
    /\ modalOpen = FALSE
    /\ isMarking = FALSE
    /\ markInflight = 0
    /\ markRequests = 0
    /\ modalToast = ""

AppIdle == RouteIdle /\ ExportIdle /\ RegIdle /\ FormIdle /\ DeptIdle /\ BackupIdle /\ ModalIdle


-----------------------------------------------------------------------------
(* Student dashboard *)

UserId == 1

isInstantLesson(l, t) ==
    /\ l.createdAt # None
    /\ t - l.createdAt[1] < InstantAgeMinutes

\* Mutant: a regular lesson's window is not checked against the start time
isAttendanceWindowOpen_NoStartCheck(l, t) ==
    LET currentMinutes == MinutesOfDay(t)
        W == OrDefault(l.attendanceWindowMinutes, DefaultWindowDashboard)
    IN  IF l.dayOfWeek # DayOf(t) THEN FALSE
        ELSE IF isInstantLesson(l, t)
        THEN currentMinutes <=
                Max(l.startTimeMinutes + W, MinutesOfDay(l.createdAt[1]) + W)
        ELSE currentMinutes <= l.startTimeMinutes + W

\* Mutant: the dashboard uses the lessons list's default window
isAttendanceWindowOpen_ListDefault(l, t) ==
    LET currentMinutes == MinutesOfDay(t)
        W == OrDefault(l.attendanceWindowMinutes, DefaultWindowLessons)
    IN  IF l.dayOfWeek # DayOf(t) THEN FALSE
        ELSE IF isInstantLesson(l, t)
        THEN currentMinutes <=
                Max(l.startTimeMinutes + W, MinutesOfDay(l.createdAt[1]) + W)
        ELSE currentMinutes >= l.startTimeMinutes
                /\ currentMinutes <= l.startTimeMinutes + W

isAttendanceWindowOpen(l, t) ==
    LET currentMinutes == MinutesOfDay(t)
        currentDay == DayOf(t)
        W == OrDefault(l.attendanceWindowMinutes, DefaultWindowDashboard)
    IN  IF l.dayOfWeek # currentDay THEN FALSE
        ELSE IF isInstantLesson(l, t)
        THEN LET endFromStartTime == l.startTimeMinutes + W
                 creationTimeMinutes == MinutesOfDay(l.createdAt[1])
                 endFromCreationTime == creationTimeMinutes + W
                 attendanceWindowEndMinutes == Max(endFromStartTime, endFromCreationTime)
             IN  currentMinutes <= attendanceWindowEndMinutes
        ELSE LET isAfterStart == currentMinutes >= l.startTimeMinutes
                 attendanceWindowEndMinutes == l.startTimeMinutes + W
                 isBeforeWindowEnd == currentMinutes <= attendanceWindowEndMinutes
             IN  isAfterStart /\ isBeforeWindowEnd

hasMarkedAttendance(l, records) ==
    IF records = {} THEN FALSE
    ELSE \E record \in records :
            record.lessonId = l.id /\ record.studentId = UserId

-----------------------------------------------------------------------------
(* Student lessons list *)

\* Mutant: the end of the window is exclusive
canMarkAttendance_StrictEnd(l, t) ==
    /\ l.dayOfWeek = DayOf(t)
    /\ l.startTimeMinutes <= MinutesOfDay(t)
    /\ MinutesOfDay(t) <
          l.startTimeMinutes + OrDefault(l.attendanceWindowMinutes, DefaultWindowLessons)
    /\ ~l.attendance

\* Mutant: the weekday is not compared
canMarkAttendance_NoDayCheck(l, t) ==
    /\ l.startTimeMinutes <= MinutesOfDay(t)
    /\ MinutesOfDay(t) <=
          l.startTimeMinutes + OrDefault(l.attendanceWindowMinutes, DefaultWindowLessons)
    /\ ~l.attendance

canMarkAttendance(l, t) ==
    LET currentMinutes == MinutesOfDay(t)
        currentDay == DayOf(t)
    IN  IF l.dayOfWeek # currentDay THEN FALSE
        ELSE LET isStarted == l.startTimeMinutes <= currentMinutes
                 attendanceWindowEndMinutes ==
                     l.startTimeMinutes
                       + OrDefault(l.attendanceWindowMinutes, DefaultWindowLessons)
                 isBeforeWindowEnd == currentMinutes <= attendanceWindowEndMinutes
                 isNotMarked == ~l.attendance
             IN  isStarted /\ isBeforeWindowEnd /\ isNotMarked

-----------------------------------------------------------------------------
(* Window specification: the predicates over lessons and times *)

StartTimes == {600, 1430}
WindowValues == {None, Some(0), Some(10)}
CreatedTimes == {None, Some(500), Some(1400)}

Lessons ==
    [ id : {1},
      dayOfWeek : 0..MaxLessonDay,
      startTimeMinutes : StartTimes,
      attendanceWindowMinutes : WindowValues,
      createdAt : CreatedTimes,
      attendance : BOOLEAN ]

RecordSets ==
    { {},
      {[lessonId |-> 1, studentId |-> UserId, status |-> "present"]},
      {[lessonId |-> 1, studentId |-> UserId + 1, status |-> "present"]} }

\* What a render of both student pages computes for the lesson at time t
Rendered(l, records, t) ==
    [ windowOpen |-> isAttendanceWindowOpen(l, t),
      hasMarked |-> hasMarkedAttendance(l, records),
      canMark |-> canMarkAttendance(l, t) ]

WinInit ==
    /\ now \in 0..MaxNow
    /\ lesson \in {l \in Lessons : l.createdAt = None \/ l.createdAt[1] <= now}
    /\ attendanceRecords \in RecordSets
    /\ page = "none"
    /\ serverRecords = {}
    /\ inflight = {}
    /\ posts = <<>>
    /\ failures = 0
    /\ toasts = NoToasts
    /\ selectedLesson = None
    /\ attendanceMarked = FALSE
    /\ attendanceError = ""
    /\ timers = 0
    /\ attendanceDialogOpen = FALSE
    /\ todaysAttendance = {}
    /\ isPending = FALSE
    /\ refetchPending = FALSE
    /\ rendered = {}
    /\ lessonId = None
    /\ attendanceData = <<>>
    /\ isSaving = FALSE
    /\ forceAttendance = FALSE
    /\ isLoading = FALSE
    /\ runs = <<>>
    /\ currentMutation = <<0, 0>>
    /\ clicks = 0
    /\ selectedStudent = None
    /\ markDialogOpen = FALSE
    /\ AppIdle
    /\ windowOpen = Rendered(lesson, attendanceRecords, now).windowOpen
    /\ hasMarked = Rendered(lesson, attendanceRecords, now).hasMarked
    /\ canMark = Rendered(lesson, attendanceRecords, now).canMark

\* A minute passes and the pages render again
WinTick ==
    /\ now < MaxNow
    /\ now' = now + 1
    /\ windowOpen' = Rendered(lesson, attendanceRecords, now').windowOpen
    /\ hasMarked' = Rendered(lesson, attendanceRecords, now').hasMarked
    /\ canMark' = Rendered(lesson, attendanceRecords, now').canMark
    /\ UNCHANGED <<appVars, bulkVars, tchVars, lesson, attendanceRecords, page, netVars, selectedLesson, isPending,
                   refetchPending, dashVars, listVars>>

WinNext == WinTick

SpecWindow == WinInit /\ [][WinNext]_vars

-----------------------------------------------------------------------------
(* The pages: requests, responses and the server *)

(* Bounds of the page model *)

PageStartTime == 599
MaxTicks == 4
MaxPosts == 2

\* Today's lessons as /api/lessons/today returns them (lesson.attendance aside)
TodaysLessons ==
    { [ id |-> 1, dayOfWeek |-> 0, startTimeMinutes |-> 600,
        attendanceWindowMinutes |-> Some(2), createdAt |-> None,
        attendance |-> FALSE ],
      [ id |-> 2, dayOfWeek |-> 0, startTimeMinutes |-> 601,
        attendanceWindowMinutes |-> Some(1), createdAt |-> Some(598),
        attendance |-> FALSE ] }

LessonIds == {l.id : l \in TodaysLessons}

LessonById(id) == CHOOSE l \in TodaysLessons : l.id = id

\* An element of todaysLessons with the lesson.attendance the last fetch gave it
LessonAsFetched(id, marked) == [LessonById(id) EXCEPT !.attendance = (id \in marked)]

\* How a request can end: response.ok, a non-OK status, or fetch rejecting
Outcomes == {"ok", "http_error", "network_error"}

\* fetch("/api/attendance", {method: "POST", body}) leaves the page
Request(pg, lid, sid, st, force, run) ==
    [ id |-> Len(posts) + 1, page |-> pg, lessonId |-> lid, studentId |-> sid,
      status |-> st, force |-> force, run |-> run, at |-> now ]

Issue(pg, lid, sid, st, force, run) ==
    LET r == Request(pg, lid, sid, st, force, run)
    IN  /\ posts' = Append(posts, r)
        /\ inflight' = inflight \cup {r}

\* The server stores the record of a request it answers with an OK status
Stored(records, r, outcome) ==
    IF outcome = "ok"
    THEN {x \in records : ~(x.lessonId = r.lessonId /\ x.studentId = r.studentId)}
            \cup {[lessonId |-> r.lessonId, studentId |-> r.studentId, status |-> r.status]}
    ELSE records

\* The response of request r arrives
Settle(r, outcome) ==
    /\ inflight' = inflight \ {r}
    /\ serverRecords' = Stored(serverRecords, r, outcome)
    /\ failures' = IF outcome = "ok" THEN failures ELSE failures + 1

Toast(kind) == [toasts EXCEPT ![kind] = @ + 1]

\* A minute passes
Tick ==
    /\ page \in {"studentDashboard", "studentLessons"}
    /\ now < PageStartTime + MaxTicks
    /\ now' = now + 1
    /\ UNCHANGED <<appVars, bulkVars, tchVars, page, winVars, netVars, selectedLesson, attendanceRecords, isPending,
                   refetchPending, dashVars, listVars>>

-----------------------------------------------------------------------------
(* Student dashboard: the page *)

\* onClick of a lesson row
DashClickLesson(l) ==
    /\ page = "studentDashboard"
    /\ selectedLesson = None
    /\ isAttendanceWindowOpen(l, now) /\ ~hasMarkedAttendance(l, attendanceRecords)
    /\ selectedLesson' = Some(l.id)
    /\ UNCHANGED <<appVars, bulkVars, tchVars, now, page, winVars, netVars, attendanceRecords, isPending,
                   refetchPending, dashVars, listVars>>

\* Cancel, or the dialog's onOpenChange(false)
DashClose ==
    /\ page = "studentDashboard"
    /\ selectedLesson # None
    /\ selectedLesson' = None
    /\ UNCHANGED <<appVars, bulkVars, tchVars, now, page, winVars, netVars, attendanceRecords, isPending,
                   refetchPending, dashVars, listVars>>

\* The Mark as Present button: markAttendance(selectedLesson.id, "present") up
\* to its fetch
DashMarkAsPresent ==
    /\ page = "studentDashboard"
    /\ selectedLesson # None
    /\ ~attendanceMarked
    /\ Len(posts) < MaxPosts
    /\ attendanceError' = ""
    /\ Issue("studentDashboard", selectedLesson[1], UserId, "present", FALSE, 0)
    /\ UNCHANGED <<appVars, bulkVars, tchVars, now, page, winVars, serverRecords, failures, toasts, selectedLesson,
                   attendanceRecords, isPending, refetchPending, attendanceMarked,
                   timers, listVars>>

\* markAttendance after its await
DashResponse(r, outcome) ==
    /\ page = "studentDashboard"
    /\ r \in inflight
    /\ Settle(r, outcome)
    /\ IF outcome = "ok"
       THEN /\ attendanceMarked' = TRUE
            /\ timers' = timers + 1
            /\ UNCHANGED attendanceError
       ELSE /\ attendanceError' = IF outcome = "http_error"
                                  THEN "Failed to mark attendance"
                                  ELSE "An error occurred while marking attendance"
            /\ UNCHANGED <<attendanceMarked, timers>>
    /\ UNCHANGED <<appVars, bulkVars, tchVars, now, page, winVars, posts, toasts, selectedLesson, attendanceRecords,
                   isPending, refetchPending, listVars>>

\* The setTimeout callback, 2000 ms after a successful response
DashTimeout ==
    /\ page = "studentDashboard"
    /\ timers > 0
    /\ timers' = timers - 1
    /\ selectedLesson' = None
    /\ attendanceMarked' = FALSE
    /\ UNCHANGED <<appVars, bulkVars, tchVars, now, page, winVars, netVars, attendanceRecords, isPending,
                   refetchPending, attendanceError, listVars>>

\* The attendanceRecords query is fetched again (window focus, remount); the
\* page itself never invalidates it
DashRefetchRecords ==
    /\ page = "studentDashboard"
    /\ attendanceRecords # serverRecords
    /\ attendanceRecords' = serverRecords
    /\ UNCHANGED <<appVars, bulkVars, tchVars, now, page, winVars, netVars, selectedLesson, isPending,
                   refetchPending, dashVars, listVars>>

\* The inline error block of the dialog is on screen
InlineErrorVisible ==
    /\ page = "studentDashboard"
    /\ selectedLesson # None
    /\ ~attendanceMarked
    /\ attendanceError # ""

-----------------------------------------------------------------------------
(* Student lessons list: the page *)

\* The lessons whose card footer shows the Mark Present button
ListRender(marked, t) ==
    {id \in LessonIds : canMarkAttendance(LessonAsFetched(id, marked), t)}

\* The page renders again at the current time (a tab is selected through
\* setSelectedTab, a query is refetched)
ListRerender ==
    /\ page = "studentLessons"
    /\ rendered # ListRender(todaysAttendance, now)
    /\ rendered' = ListRender(todaysAttendance, now)
    /\ UNCHANGED <<appVars, bulkVars, tchVars, now, page, winVars, netVars, selectedLesson, attendanceRecords,
                   isPending, refetchPending, dashVars, attendanceDialogOpen,
                   todaysAttendance>>

\* The Mark Present button of a lesson card
ListClickMarkPresent(id) ==
    /\ page = "studentLessons"
    /\ ~attendanceDialogOpen
    /\ id \in rendered
    /\ selectedLesson' = Some(id)
    /\ attendanceDialogOpen' = TRUE
    /\ rendered' = ListRender(todaysAttendance, now)
    /\ UNCHANGED <<appVars, bulkVars, tchVars, now, page, winVars, netVars, attendanceRecords, isPending,
                   refetchPending, dashVars, todaysAttendance>>

\* Cancel, or the dialog's onOpenChange(false)
ListClose ==
    /\ page = "studentLessons"
    /\ attendanceDialogOpen
    /\ attendanceDialogOpen' = FALSE
    /\ rendered' = ListRender(todaysAttendance, now)
    /\ UNCHANGED <<appVars, bulkVars, tchVars, now, page, winVars, netVars, selectedLesson, attendanceRecords,
                   isPending, refetchPending, dashVars, todaysAttendance>>

\* Confirm Attendance: handleMarkAttendance and mutationFn up to its fetch
ListConfirm ==
    /\ page = "studentLessons"
    /\ attendanceDialogOpen
    /\ ~isPending
    /\ selectedLesson # None
    /\ Len(posts) < MaxPosts
    /\ Issue("studentLessons", selectedLesson[1], UserId, "present", FALSE, 0)
    /\ isPending' = TRUE
    /\ rendered' = ListRender(todaysAttendance, now)
    /\ UNCHANGED <<appVars, bulkVars, tchVars, now, page, winVars, serverRecords, failures, toasts, selectedLesson,
                   attendanceRecords, refetchPending, dashVars, attendanceDialogOpen,
                   todaysAttendance>>

\* mutationFn after its await, then onSuccess or onError
ListResponse(r, outcome) ==
    /\ page = "studentLessons"
    /\ r \in inflight
    /\ Settle(r, outcome)
    /\ isPending' = FALSE
    /\ IF outcome = "ok"
       THEN /\ toasts' = Toast("success")
            /\ attendanceDialogOpen' = FALSE
            /\ refetchPending' = TRUE
       ELSE /\ toasts' = Toast("error")
            /\ UNCHANGED <<attendanceDialogOpen, refetchPending>>
    /\ rendered' = ListRender(todaysAttendance, now)
    /\ UNCHANGED <<appVars, bulkVars, tchVars, now, page, winVars, posts, selectedLesson, attendanceRecords,
                   dashVars, todaysAttendance>>

\* The refetch of /api/lessons/today that invalidateQueries started resolves
ListRefetchArrives ==
    /\ page = "studentLessons"
    /\ refetchPending
    /\ refetchPending' = FALSE
    /\ todaysAttendance' =
          {id \in LessonIds :
              \E x \in serverRecords : x.lessonId = id /\ x.studentId = UserId}
    /\ rendered' = ListRender(todaysAttendance', now)
    /\ UNCHANGED <<appVars, bulkVars, tchVars, now, page, winVars, netVars, selectedLesson, attendanceRecords,
                   isPending, dashVars, attendanceDialogOpen>>

-----------------------------------------------------------------------------
(* Bulk attendance: the page *)

(* Bounds of the bulk model *)

MaxStudents == 2
MaxClicks == 2

Students == 1..MaxStudents
Statuses == {"present", "absent"}

EmptyData == [s \in {} |-> "present"]

\* Object.keys of an object with integer keys: ascending
RECURSIVE SortedKeys(_)
SortedKeys(S) ==
    IF S = {} THEN <<>>
    ELSE LET m == CHOOSE x \in S : \A y \in S : x <= y
         IN  <<m>> \o SortedKeys(S \ {m})

\* /api/attendance?lessonId=..., or [] while there is no lessonId
LessonRecords(records) ==
    IF lessonId = None THEN {} ELSE {x \in records : x.lessonId = lessonId[1]}

\* initialData of the effect "Initialize attendance data from existing records"
InitialData(records) ==
    [ s \in {x.studentId : x \in records} \cap Students |->
        (CHOOSE x \in records : x.studentId = s).status ]

\* The effect runs when attendanceRecords changes and has entries
AfterRecords(data, old, new) ==
    IF new # old /\ new # {} THEN InitialData(new) ELSE data

\* toggleAttendance
Toggled(data, s, st) ==
    [x \in DOMAIN data \cup {s} |-> IF x = s THEN st ELSE data[x]]

\* A saveAllAttendance invocation at its first statement: the render's
\* attendanceData in its closure, studentIds still to process, the counters
\* and the requests it has sent
NewRun(data) ==
    [ pc |-> "start", data |-> data, todo |-> SortedKeys(DOMAIN data),
      successful |-> 0, failed |-> 0, sent |-> <<>> ]

\* An invocation that has returned
Returned == [pc |-> "done"]

Running == {k \in 1..Len(runs) : runs[k].pc # "done"}

\* Mutant: every request of the page overrides the attendance window
BulkRequest_AlwaysForce(rs, sid, st, k) ==
    [ id |-> <<k, Len(rs[k].sent) + 1>>, page |-> "bulk", lessonId |-> lessonId[1],
      studentId |-> sid, status |-> st, force |-> TRUE, run |-> k, at |-> now ]

\* markAttendanceMutation.mutationFn up to its apiRequest; attendanceData has
\* entries only once a lesson is loaded, so lessonId is set here
BulkRequest(rs, sid, st, k) ==
    [ id |-> <<k, Len(rs[k].sent) + 1>>, page |-> "bulk", lessonId |-> lessonId[1],
      studentId |-> sid, status |-> st, force |-> forceAttendance, run |-> k,
      at |-> now ]

\* Mutant: the first failure ends the loop
OnFailed_Abort(run) == [run EXCEPT !.failed = @ + 1, !.todo = <<>>]

\* The catch block of one iteration
OnFailed(run) == [run EXCEPT !.failed = @ + 1]

\* Mutant: a successful iteration is not counted
OnPaused_Uncounted(run) == run

\* After the pause of a successful iteration
OnPaused(run) == [run EXCEPT !.successful = @ + 1]

\* The loop of run k at the top of an iteration, rs being the runs and infl the
\* requests in flight at that point: the next mutateAsync, or past the loop the
\* awaited invalidateQueries
BulkLoop(rs, k, infl, pending) ==
    IF rs[k].todo # <<>>
    THEN LET sid == Head(rs[k].todo)
             r == BulkRequest(rs, sid, rs[k].data[sid], k)
         IN  /\ inflight' = infl \cup {r}
             /\ runs' = [rs EXCEPT ![k].pc = "request", ![k].todo = Tail(@),
                                   ![k].sent = Append(@, r)]
             /\ isPending' = TRUE
             /\ currentMutation' = r.id
             /\ UNCHANGED refetchPending
    ELSE /\ runs' = [rs EXCEPT ![k].pc = "refresh"]
         /\ refetchPending' = TRUE
         /\ inflight' = infl
         /\ isPending' = pending
         /\ UNCHANGED currentMutation

\* The three initial queries have resolved
BulkLoaded ==
    /\ page = "bulk"
    /\ isLoading
    /\ isLoading' = FALSE
    /\ attendanceRecords' = LessonRecords(serverRecords)
    /\ attendanceData' = AfterRecords(attendanceData, attendanceRecords, attendanceRecords')
    /\ UNCHANGED <<appVars, tchVars, now, page, winVars, netVars, selectedLesson, isPending, refetchPending,
                   dashVars, listVars, lessonId, isSaving, forceAttendance, runs,
                   currentMutation, clicks>>

\* A Present or Absent button of a student row
BulkToggle(s, st) ==
    /\ page = "bulk"
    /\ lessonId # None
    /\ ~isLoading
    /\ clicks < MaxClicks
    /\ clicks' = clicks + 1
    /\ attendanceData' = Toggled(attendanceData, s, st)
    /\ UNCHANGED <<appVars, tchVars, now, page, winVars, netVars, selectedLesson, attendanceRecords,
                   isPending, refetchPending, dashVars, listVars, lessonId, isSaving,
                   forceAttendance, isLoading, runs, currentMutation>>

\* The Override attendance window checkbox
BulkToggleForce ==
    /\ page = "bulk"
    /\ clicks < MaxClicks
    /\ clicks' = clicks + 1
    /\ forceAttendance' = ~forceAttendance
    /\ UNCHANGED <<appVars, tchVars, now, page, winVars, netVars, selectedLesson, attendanceRecords,
                   isPending, refetchPending, dashVars, listVars, lessonId,
                   attendanceData, isSaving, isLoading, runs, currentMutation>>

\* The Save All button: saveAllAttendance up to its first await
BulkSaveAll ==
    /\ page = "bulk"
    /\ ~(isLoading \/ isPending)
    /\ clicks < MaxClicks
    /\ clicks' = clicks + 1
    /\ IF lessonId = None
       THEN \* nothing is marked and the disabled query is not awaited
            /\ runs' = Append(runs, Returned)
            /\ toasts' = Toast("summary")
            /\ isSaving' = FALSE
            /\ refetchPending' = TRUE
            /\ UNCHANGED <<inflight, isPending, currentMutation>>
       ELSE /\ BulkLoop(Append(runs, NewRun(attendanceData)), Len(runs) + 1,
                        inflight, isPending)
            /\ isSaving' = TRUE
            /\ UNCHANGED toasts
    /\ UNCHANGED <<appVars, tchVars, now, page, winVars, serverRecords, posts, failures, selectedLesson,
                   attendanceRecords, dashVars, listVars, lessonId, attendanceData,
                   forceAttendance, isLoading>>

\* mutateAsync settles: onSuccess and the 100 ms pause, or onError, the catch
\* block and the next iteration
BulkResponse(r, outcome) ==
    /\ page = "bulk"
    /\ r \in inflight
    /\ serverRecords' = Stored(serverRecords, r, outcome)
    /\ failures' = IF outcome = "ok" THEN failures ELSE failures + 1
    /\ LET pending == IF r.id = currentMutation THEN FALSE ELSE isPending
       IN  IF outcome = "ok"
           THEN /\ runs' = [runs EXCEPT ![r.run].pc = "pause"]
                /\ inflight' = inflight \ {r}
                /\ isPending' = pending
                /\ refetchPending' = TRUE
                /\ UNCHANGED <<currentMutation, toasts>>
           ELSE /\ toasts' = Toast("error")
                /\ BulkLoop([runs EXCEPT ![r.run] = OnFailed(@)], r.run,
                            inflight \ {r}, pending)
    /\ UNCHANGED <<appVars, tchVars, now, page, winVars, posts, selectedLesson, attendanceRecords,
                   dashVars, listVars, lessonId, attendanceData, isSaving,
                   forceAttendance, isLoading, clicks>>

\* The 100 ms timer of run k fires
BulkPauseDone(k) ==
    /\ page = "bulk"
    /\ k \in 1..Len(runs)
    /\ runs[k].pc = "pause"
    /\ BulkLoop([runs EXCEPT ![k] = OnPaused(@)], k, inflight, isPending)
    /\ UNCHANGED <<appVars, tchVars, now, page, winVars, serverRecords, posts, failures, toasts,
                   selectedLesson, attendanceRecords, dashVars, listVars, lessonId,
                   attendanceData, isSaving, forceAttendance, isLoading, clicks>>

\* The refetch of the attendance query resolves: the effect re-initialises
\* attendanceData, and every run awaiting invalidateQueries goes on to
\* refetchAttendance(), its summary toast and setIsSaving(false)
BulkRecordsArrive ==
    /\ page = "bulk"
    /\ refetchPending
    /\ ~isLoading
    /\ attendanceRecords' = LessonRecords(serverRecords)
    /\ attendanceData' = AfterRecords(attendanceData, attendanceRecords, attendanceRecords')
    /\ LET finishing == {k \in 1..Len(runs) : runs[k].pc = "refresh"}
       IN  /\ runs' = [k \in 1..Len(runs) |->
                         IF k \in finishing THEN Returned ELSE runs[k]]
           /\ toasts' = [toasts EXCEPT !.summary = @ + Cardinality(finishing)]
           /\ isSaving' = IF finishing # {} THEN FALSE ELSE isSaving
           /\ refetchPending' = (finishing # {})
    /\ UNCHANGED <<appVars, tchVars, now, page, winVars, serverRecords, inflight, posts, failures,
                   selectedLesson, isPending, dashVars, listVars, lessonId,
                   forceAttendance, isLoading, currentMutation, clicks>>

-----------------------------------------------------------------------------
(* Teacher dashboard: the page *)

Opposite(st) == IF st = "present" THEN "absent" ELSE "present"

\* A lesson row: setSelectedLesson(lesson); the attendance query of the lesson
\* starts
TDashSelectLesson(id) ==
    /\ page = "teacherDashboard"
    /\ selectedLesson = None
    /\ selectedLesson' = Some(id)
    /\ attendanceRecords' = {}
    /\ refetchPending' = TRUE
    /\ UNCHANGED <<appVars, bulkVars, tchVars, now, page, winVars, netVars, isPending, dashVars,
                   listVars>>

\* Close, or the dialog's onOpenChange(false)
TDashClose ==
    /\ page = "teacherDashboard"
    /\ selectedLesson # None
    /\ selectedLesson' = None
    /\ attendanceRecords' = {}
    /\ refetchPending' = FALSE
    /\ UNCHANGED <<appVars, bulkVars, tchVars, now, page, winVars, netVars, isPending, dashVars,
                   listVars>>

\* The attendance query of the selected lesson resolves
TDashRecordsArrive ==
    /\ page = "teacherDashboard"
    /\ selectedLesson # None
    /\ refetchPending
    /\ refetchPending' = FALSE
    /\ attendanceRecords' = {x \in serverRecords : x.lessonId = selectedLesson[1]}
    /\ UNCHANGED <<appVars, bulkVars, tchVars, now, page, winVars, netVars, selectedLesson,
                   isPending, dashVars, listVars>>

\* Mark Absent / Mark Present of a listed record: markAttendance up to its fetch
TDashMark(record) ==
    /\ page = "teacherDashboard"
    /\ selectedLesson # None
    /\ record \in attendanceRecords
    /\ Len(posts) < MaxPosts
    /\ Issue("teacherDashboard", selectedLesson[1], record.studentId,
             Opposite(record.status), FALSE, 0)
    /\ UNCHANGED <<appVars, bulkVars, tchVars, now, page, winVars, serverRecords, failures, toasts,
                   selectedLesson, attendanceRecords, isPending, refetchPending,
                   dashVars, listVars>>

\* markAttendance after its await: refetchAttendance() on an OK status, nothing
\* but console.error otherwise
TDashResponse(r, outcome) ==
    /\ page = "teacherDashboard"
    /\ r \in inflight
    /\ Settle(r, outcome)
    /\ refetchPending' = IF outcome = "ok" THEN TRUE ELSE refetchPending
    /\ UNCHANGED <<appVars, bulkVars, tchVars, now, page, winVars, posts, toasts, selectedLesson,
                   attendanceRecords, isPending, dashVars, listVars>>

-----------------------------------------------------------------------------
(* Teacher attendance records: the page *)

\* A Mark Attendance button: setSelectedStudent(student), setMarkDialogOpen(true)
TRecOpenDialog(s) ==
    /\ page = "teacherRecords"
    /\ ~markDialogOpen
    /\ selectedStudent' = Some(s)
    /\ markDialogOpen' = TRUE
    /\ UNCHANGED <<appVars, bulkVars, now, page, winVars, netVars, selectedLesson,
                   attendanceRecords, isPending, refetchPending, dashVars, listVars>>

\* The dialog's onOpenChange(false)
TRecClose ==
    /\ page = "teacherRecords"
    /\ markDialogOpen
    /\ markDialogOpen' = FALSE
    /\ UNCHANGED <<appVars, bulkVars, selectedStudent, now, page, winVars, netVars, selectedLesson,
                   attendanceRecords, isPending, refetchPending, dashVars, listVars>>

\* Mark as Absent / Mark as Present: markAttendance up to its fetch
TRecMark(st) ==
    /\ page = "teacherRecords"
    /\ markDialogOpen
    /\ lessonId # None
    /\ Len(posts) < MaxPosts
    /\ Issue("teacherRecords", lessonId[1], selectedStudent[1], st, FALSE, 0)
    /\ UNCHANGED <<appVars, bulkVars, tchVars, now, page, winVars, serverRecords, failures, toasts,
                   selectedLesson, attendanceRecords, isPending, refetchPending,
                   dashVars, listVars>>

\* markAttendance after its await: refetchAttendance() and
\* setMarkDialogOpen(false) on an OK status, nothing but console.error otherwise
TRecResponse(r, outcome) ==
    /\ page = "teacherRecords"
    /\ r \in inflight
    /\ Settle(r, outcome)
    /\ refetchPending' = IF outcome = "ok" THEN TRUE ELSE refetchPending
    /\ markDialogOpen' = IF outcome = "ok" THEN FALSE ELSE markDialogOpen
    /\ UNCHANGED <<appVars, bulkVars, selectedStudent, now, page, winVars, posts, toasts,
                   selectedLesson, attendanceRecords, isPending, dashVars, listVars>>

\* The attendance query of the lesson resolves
TRecRecordsArrive ==
    /\ page = "teacherRecords"
    /\ refetchPending
    /\ refetchPending' = FALSE
    /\ attendanceRecords' = LessonRecords(serverRecords)
    /\ UNCHANGED <<appVars, bulkVars, tchVars, now, page, winVars, netVars, selectedLesson,
                   isPending, dashVars, listVars>>

-----------------------------------------------------------------------------
(* Admin attendance records: the page *)

\* apiRequest rejects unless the response is OK
apiRequestThrows(outcome) == outcome # "ok"

\* Mark Absent / Mark Present of a table row: handleUpdateAttendance and
\* mutationFn up to its apiRequest
AdminUpdateAttendance(record) ==
    /\ page = "adminRecords"
    /\ record \in attendanceRecords
    /\ Len(posts) < MaxPosts
    /\ Issue("adminRecords", record.lessonId, record.studentId,
             Opposite(record.status), FALSE, 0)
    /\ UNCHANGED <<appVars, bulkVars, tchVars, now, page, winVars, serverRecords, failures, toasts,
                   selectedLesson, attendanceRecords, isPending, refetchPending,
                   dashVars, listVars>>

\* mutationFn after its await, then onSuccess or onError
AdminResponse(r, outcome) ==
    /\ page = "adminRecords"
    /\ r \in inflight
    /\ Settle(r, outcome)
    /\ IF apiRequestThrows(outcome)
       THEN /\ toasts' = Toast("error")
            /\ UNCHANGED refetchPending
       ELSE /\ toasts' = Toast("success")
            /\ refetchPending' = TRUE
    /\ UNCHANGED <<appVars, bulkVars, tchVars, now, page, winVars, posts, selectedLesson,
                   attendanceRecords, isPending, dashVars, listVars>>

\* The filtered attendance query resolves
AdminRecordsArrive ==
    /\ page = "adminRecords"
    /\ refetchPending
    /\ refetchPending' = FALSE
    /\ attendanceRecords' = serverRecords
    /\ UNCHANGED <<appVars, bulkVars, tchVars, now, page, winVars, netVars, selectedLesson,
                   isPending, dashVars, listVars>>

-----------------------------------------------------------------------------
(* The specification of the pages *)

StudentRecordSets ==
    { {}, {[lessonId |-> 1, studentId |-> UserId, status |-> "present"]} }

Pages ==
    { "studentDashboard", "studentLessons", "bulk", "teacherDashboard",
      "teacherRecords", "adminRecords" }

\* What the server holds for the lesson when a teacher or admin page opens
BulkRecordSets ==
    { {},
      {[lessonId |-> 1, studentId |-> s, status |-> IF s = 1 THEN "present" ELSE "absent"]
          : s \in Students} }

Init ==
    /\ now = PageStartTime
    /\ page \in Pages
    /\ lesson = LessonById(1)
    /\ windowOpen = FALSE
    /\ hasMarked = FALSE
    /\ canMark = FALSE
    /\ serverRecords \in IF page \in {"studentDashboard", "studentLessons"}
                          THEN StudentRecordSets ELSE BulkRecordSets
    /\ inflight = {}
    /\ posts = <<>>
    /\ failures = 0
    /\ toasts = NoToasts
    /\ selectedLesson = None
    /\ attendanceMarked = FALSE
    /\ attendanceError = ""
    /\ attendanceRecords = IF page = "studentDashboard" THEN serverRecords ELSE {}
    /\ timers = 0
    /\ attendanceDialogOpen = FALSE
    /\ todaysAttendance =
          IF page = "studentLessons"
          THEN {id \in LessonIds : \E x \in serverRecords : x.lessonId = id}
          ELSE {}
    /\ isPending = FALSE
    /\ rendered = IF page = "studentLessons"
                  THEN ListRender(todaysAttendance, now) ELSE {}
    /\ lessonId \in IF page \in {"bulk", "teacherRecords"} THEN {None, Some(1)} ELSE {None}
    /\ attendanceData = EmptyData
    /\ isSaving = FALSE
    /\ forceAttendance = FALSE
    /\ isLoading = (page = "bulk" /\ lessonId # None)
    /\ refetchPending = (page = "adminRecords" \/ (page = "teacherRecords" /\ lessonId # None))
    /\ runs = <<>>
    /\ currentMutation = <<0, 0>>
    /\ clicks = 0
    /\ selectedStudent = None
    /\ markDialogOpen = FALSE
    /\ AppIdle

Next ==
    \/ Tick
    \/ \E l \in TodaysLessons : DashClickLesson(l)
    \/ DashClose
    \/ DashMarkAsPresent
    \/ \E r \in inflight, outcome \in Outcomes : DashResponse(r, outcome)
    \/ DashTimeout
    \/ DashRefetchRecords
    \/ ListRerender
    \/ \E id \in LessonIds : ListClickMarkPresent(id)
    \/ ListClose
    \/ ListConfirm
    \/ \E r \in inflight, outcome \in Outcomes : ListResponse(r, outcome)
    \/ ListRefetchArrives
    \/ BulkLoaded
    \/ \E s \in Students, st \in Statuses : BulkToggle(s, st)
    \/ BulkToggleForce
    \/ BulkSaveAll
    \/ \E r \in inflight, outcome \in Outcomes : BulkResponse(r, outcome)
    \/ \E k \in 1..MaxClicks : BulkPauseDone(k)
    \/ BulkRecordsArrive
    \/ \E id \in LessonIds : TDashSelectLesson(id)
    \/ TDashClose
    \/ TDashRecordsArrive
    \/ \E record \in attendanceRecords : TDashMark(record)
    \/ \E r \in inflight, outcome \in Outcomes : TDashResponse(r, outcome)
    \/ \E s \in Students : TRecOpenDialog(s)
    \/ TRecClose
    \/ \E st \in Statuses : TRecMark(st)
    \/ \E r \in inflight, outcome \in Outcomes : TRecResponse(r, outcome)
    \/ TRecRecordsArrive
    \/ \E record \in attendanceRecords : AdminUpdateAttendance(record)
    \/ \E r \in inflight, outcome \in Outcomes : AdminResponse(r, outcome)
    \/ AdminRecordsArrive

Spec == Init /\ [][Next]_vars

\* The pages with what the browser schedules by itself: responses arrive,
\* timeouts fire, the clock advances.  Clicks and refetches on window focus are
\* the user's and have no fairness.
Fairness ==
    /\ WF_vars(\E r \in inflight, outcome \in Outcomes : DashResponse(r, outcome))
    /\ WF_vars(DashTimeout)
    /\ WF_vars(Tick)

SpecFair == Spec /\ Fairness

-----------------------------------------------------------------------------
(* The attendance pages while another part of the application is examined *)

PagesIdle ==
    /\ now = 0
    /\ lesson = LessonById(1)
    /\ windowOpen = FALSE
    /\ hasMarked = FALSE
    /\ canMark = FALSE
    /\ page = "none"
    /\ serverRecords = {}
    /\ inflight = {}
    /\ posts = <<>>
    /\ failures = 0
    /\ toasts = NoToasts
    /\ selectedLesson = None
    /\ attendanceMarked = FALSE
    /\ attendanceError = ""
    /\ attendanceRecords = {}
    /\ timers = 0
    /\ attendanceDialogOpen = FALSE
    /\ todaysAttendance = {}
    /\ isPending = FALSE
    /\ refetchPending = FALSE
    /\ rendered = {}
    /\ lessonId = None
    /\ attendanceData = EmptyData
    /\ isSaving = FALSE
    /\ forceAttendance = FALSE
    /\ isLoading = FALSE
    /\ runs = <<>>
    /\ currentMutation = <<0, 0>>
    /\ clicks = 0
    /\ selectedStudent = None
    /\ markDialogOpen = FALSE

\* The rest of the application while one part of it is examined
IdleButRoute == PagesIdle /\ ExportIdle /\ RegIdle /\ FormIdle /\ DeptIdle /\ BackupIdle /\ ModalIdle
IdleButExport == PagesIdle /\ RouteIdle /\ RegIdle /\ FormIdle /\ DeptIdle /\ BackupIdle /\ ModalIdle
IdleButReg == PagesIdle /\ RouteIdle /\ ExportIdle /\ FormIdle /\ DeptIdle /\ BackupIdle /\ ModalIdle
IdleButForm == PagesIdle /\ RouteIdle /\ ExportIdle /\ RegIdle /\ DeptIdle /\ BackupIdle /\ ModalIdle
IdleButDept == PagesIdle /\ RouteIdle /\ ExportIdle /\ RegIdle /\ FormIdle /\ BackupIdle /\ ModalIdle
IdleButBackup == PagesIdle /\ RouteIdle /\ ExportIdle /\ RegIdle /\ FormIdle /\ DeptIdle /\ ModalIdle
IdleButModal == PagesIdle /\ RouteIdle /\ ExportIdle /\ RegIdle /\ FormIdle /\ DeptIdle /\ BackupIdle

-----------------------------------------------------------------------------
(* Router: ProtectedRoute, the route table and the auth page's redirect *)

(* Bounds of the router model *)

MaxRedirects == 3

\* user.role is a string: the three roles of the application and any other
Roles == {"student", "teacher", "admin", "other"}

AllRoles == {"student", "teacher", "admin"}

\* <Route path component /> and <ProtectedRoute path component allowedRoles />
\* of the Switch, in order
RouteTable ==
    << [path |-> "/", component |-> "AuthPage", protected |-> FALSE, allowedRoles |-> {}],
       [path |-> "/auth", component |-> "AuthPage", protected |-> FALSE, allowedRoles |-> {}],
       [path |-> "/student", component |-> "StudentDashboard", protected |-> TRUE,
        allowedRoles |-> {"student", "admin", "teacher"}],
       [path |-> "/student/lessons", component |-> "StudentLessons", protected |-> TRUE,
        allowedRoles |-> {"student"}],
       [path |-> "/student/attendance-history", component |-> "StudentAttendanceHistory",
        protected |-> TRUE, allowedRoles |-> {"student"}],
       [path |-> "/teacher", component |-> "TeacherDashboard", protected |-> TRUE,
        allowedRoles |-> {"teacher", "admin"}],
       [path |-> "/teacher/classes", component |-> "TeacherClasses", protected |-> TRUE,
        allowedRoles |-> {"teacher", "admin"}],
       [path |-> "/teacher/lessons", component |-> "TeacherLessons", protected |-> TRUE,
        allowedRoles |-> {"teacher", "admin"}],
       [path |-> "/teacher/create-lesson", component |-> "CreateLesson", protected |-> TRUE,
        allowedRoles |-> {"teacher", "admin"}],
       [path |-> "/teacher/attendance-records", component |-> "TeacherAttendanceRecords",
        protected |-> TRUE, allowedRoles |-> {"teacher", "admin"}],
       [path |-> "/teacher/bulk-attendance", component |-> "BulkAttendance", protected |-> TRUE,
        allowedRoles |-> {"teacher", "admin"}],
       [path |-> "/admin", component |-> "AdminDashboard", protected |-> TRUE,
        allowedRoles |-> {"admin"}],
       [path |-> "/admin/teachers", component |-> "AdminTeachers", protected |-> TRUE,
        allowedRoles |-> {"admin"}],
       [path |-> "/admin/departments", component |-> "AdminDepartments", protected |-> TRUE,
        allowedRoles |-> {"admin"}],
       [path |-> "/admin/levels", component |-> "AdminLevels", protected |-> TRUE,
        allowedRoles |-> {"admin"}],
       [path |-> "/admin/classes", component |-> "AdminClasses", protected |-> TRUE,
        allowedRoles |-> {"admin"}],
       [path |-> "/admin/lessons", component |-> "AdminLessons", protected |-> TRUE,
        allowedRoles |-> {"admin"}],
       [path |-> "/admin/attendance-records", component |-> "AdminAttendanceRecords",
        protected |-> TRUE, allowedRoles |-> {"admin"}],
       [path |-> "/admin/system-settings", component |-> "AdminSystemSettings",
        protected |-> TRUE, allowedRoles |-> {"admin"}],
       [path |-> "/admin/students", component |-> "AdminStudents", protected |-> TRUE,
        allowedRoles |-> {"admin"}],
       [path |-> "/admin/students/:id/report", component |-> "StudentReport",
        protected |-> TRUE, allowedRoles |-> {"admin"}],
       [path |-> "/profile", component |-> "ProfilePage", protected |-> TRUE,
        allowedRoles |-> {"admin", "teacher", "student"}] >>

\* The pattern of a route matches the address: literally, or :id standing for 1
Matches(pattern, loc) ==
    \/ pattern = loc
    \/ pattern = "/admin/students/:id/report" /\ loc = "/admin/students/1/report"

\* The addresses a user can open: one for every route, and one of no route
Addresses ==
    {IF RouteTable[i].path = "/admin/students/:id/report"
     THEN "/admin/students/1/report" ELSE RouteTable[i].path : i \in DOMAIN RouteTable}
        \cup {"/nowhere"}

\* Mutant: the fallback sends a teacher to the admin home
redirectPath_TeacherToAdmin(role) ==
    IF role = "teacher" THEN "/admin"
    ELSE IF role = "admin" THEN "/admin" ELSE "/student"

\* ProtectedRoute: redirectPath of a role
redirectPath(role) ==
    IF role = "teacher" THEN "/teacher"
    ELSE IF role = "admin" THEN "/admin" ELSE "/student"

\* AuthPage: the <Redirect to> of a logged-in user
AuthRedirect(role) ==
    IF role = "admin" THEN "/admin"
    ELSE IF role = "teacher" THEN "/teacher" ELSE "/student"

\* What a component renders: something shown, and possibly a redirect; reload
\* tells window.location.replace from wouter's <Redirect>
View(what, to, reload) == [shown |-> what, redirect |-> to, reload |-> reload]

ProtectedRoute(route, loading, u, loc) ==
    IF loading THEN View("Loader2", None, FALSE)
    ELSE IF u = None THEN View("null", Some("/"), TRUE)
    ELSE IF /\ route.allowedRoles # {}
            /\ u[1] \notin route.allowedRoles
            /\ loc # redirectPath(u[1])
         THEN View("null", Some(redirectPath(u[1])), TRUE)
         ELSE View(route.component, None, FALSE)

AuthPage(u) ==
    IF u # None THEN View("null", Some(AuthRedirect(u[1])), FALSE)
    ELSE View("AuthPage", None, FALSE)

\* The index of the first route of the Switch that matches, 0 if none does
MatchedRoute(loc) ==
    IF \E i \in DOMAIN RouteTable : Matches(RouteTable[i].path, loc)
    THEN CHOOSE i \in DOMAIN RouteTable :
            /\ Matches(RouteTable[i].path, loc)
            /\ \A j \in 1..(i - 1) : ~Matches(RouteTable[j].path, loc)
    ELSE 0

\* Router: the Switch renders its first matching child, or NotFound
Router(loc, loading, u) ==
    LET i == MatchedRoute(loc) IN
    IF i = 0 THEN View("NotFound", None, FALSE)
    ELSE IF RouteTable[i].protected
         THEN ProtectedRoute(RouteTable[i], loading, u, loc)
         ELSE AuthPage(u)

\* The application at an address after a full page load: the auth query starts
Loaded(loc, n) ==
    /\ location' = loc
    /\ authLoading' = TRUE
    /\ user' = None
    /\ shown' = Router(loc, TRUE, None).shown
    /\ redirects' = n

RouteInit ==
    /\ IdleButRoute
    /\ location \in Addresses
    /\ session \in {None} \cup {Some(r) : r \in Roles}
    /\ authLoading = TRUE
    /\ user = None
    /\ shown = Router(location, TRUE, None).shown
    /\ redirects = 0

\* The user opens an address
RouteOpen(loc) ==
    /\ loc # location
    /\ Loaded(loc, 0)
    /\ UNCHANGED <<pageVars, restOfRoute, session>>

\* The auth query of useAuth resolves with the user of the session
RouteAuthLoaded ==
    /\ authLoading
    /\ authLoading' = FALSE
    /\ user' = session
    /\ shown' = Router(location, FALSE, session).shown
    /\ UNCHANGED <<pageVars, restOfRoute, location, session, redirects>>

\* The browser follows the redirect of the last render: window.location.replace
\* loads the application again, <Redirect> navigates inside it
RouteRedirect ==
    LET view == Router(location, authLoading, user) IN
    /\ view.redirect # None
    /\ redirects < MaxRedirects
    /\ IF view.reload
       THEN Loaded(view.redirect[1], redirects + 1)
       ELSE /\ location' = view.redirect[1]
            /\ shown' = Router(view.redirect[1], authLoading, user).shown
            /\ redirects' = redirects + 1
            /\ UNCHANGED <<authLoading, user>>
    /\ UNCHANGED <<pageVars, restOfRoute, session>>

\* loginMutation succeeds on the auth page
RouteLogin(role) ==
    /\ shown = "AuthPage"
    /\ ~authLoading
    /\ user = None
    /\ session' = Some(role)
    /\ user' = Some(role)
    /\ shown' = Router(location, authLoading, Some(role)).shown
    /\ redirects' = 0
    /\ UNCHANGED <<pageVars, restOfRoute, location, authLoading>>

\* logoutMutation succeeds
RouteLogout ==
    /\ user # None
    /\ session' = None
    /\ user' = None
    /\ shown' = Router(location, authLoading, None).shown
    /\ redirects' = 0
    /\ UNCHANGED <<pageVars, restOfRoute, location, authLoading>>

RouteNext ==
    \/ \E loc \in Addresses : RouteOpen(loc)
    \/ RouteAuthLoaded
    \/ RouteRedirect
    \/ \E role \in Roles : RouteLogin(role)
    \/ RouteLogout

SpecRoute == RouteInit /\ [][RouteNext]_vars

-----------------------------------------------------------------------------
(* Admin attendance records: pagination and the exports *)

itemsPerPage == 10

(* Bounds of the export model *)

MaxRecords == 21

\* The attendance records the server returns for a selection of filters: n of them
RecordsOf(n) == [i \in 1..n |-> [id |-> i, status |-> IF i % 2 = 1 THEN "present" ELSE "absent"]]

\* Math.ceil(length / itemsPerPage)
totalPages(records) == (Len(records) + itemsPerPage - 1) \div itemsPerPage

Min(a, b) == IF a <= b THEN a ELSE b

\* Array.prototype.slice(from, to) for 0 <= from <= to
Slice(seq, from, to) ==
    LET lo == Min(from, Len(seq))
        hi == Min(to, Len(seq))
    IN  [i \in 1..(hi - lo) |-> seq[lo + i]]

paginatedRecords(records, pg) == Slice(records, (pg - 1) * itemsPerPage, pg * itemsPerPage)

\* One row of the export for a record
ExportRow(record) == <<record.id, IF record.status = "present" THEN "Present" ELSE "Absent">>

\* prepareExportData().data
prepareExportData(records, pg) ==
    LET shownRecords == paginatedRecords(records, pg)
    IN  [i \in 1..Len(shownRecords) |-> ExportRow(shownRecords[i])]

ExportInit ==
    /\ IdleButExport
    /\ adminRecords \in {RecordsOf(n) : n \in 0..MaxRecords}
    /\ currentPage = 1
    /\ exported = None
    /\ exportToast = ""

\* A filter changes and the attendance query resolves with the n matching
\* records; currentPage stays
ExportFilter(n) ==
    /\ adminRecords' = RecordsOf(n)
    /\ adminRecords' # adminRecords
    /\ UNCHANGED <<pageVars, restOfExport, currentPage, exported, exportToast>>

\* A page link of the pagination
ExportGoToPage(pg) ==
    /\ totalPages(adminRecords) > 1
    /\ pg \in 1..totalPages(adminRecords)
    /\ currentPage' = pg
    /\ UNCHANGED <<pageVars, restOfExport, adminRecords, exported, exportToast>>

\* Previous: setCurrentPage(prev => Math.max(prev - 1, 1))
ExportPrevious ==
    /\ totalPages(adminRecords) > 1
    /\ currentPage' = Max(currentPage - 1, 1)
    /\ UNCHANGED <<pageVars, restOfExport, adminRecords, exported, exportToast>>

\* Next: setCurrentPage(prev => Math.min(prev + 1, totalPages))
ExportNextPage ==
    /\ totalPages(adminRecords) > 1
    /\ currentPage' = Min(currentPage + 1, totalPages(adminRecords))
    /\ UNCHANGED <<pageVars, restOfExport, adminRecords, exported, exportToast>>

\* handleExportToExcel, handleExportToPDF, handlePrint: the buttons are
\* disabled when the page shown has no record
ExportTo(kind) ==
    /\ Len(paginatedRecords(adminRecords, currentPage)) # 0
    /\ exported' = Some([kind |-> kind, data |-> prepareExportData(adminRecords, currentPage)])
    /\ exportToast' = IF kind = "print" THEN exportToast ELSE "Export successful"
    /\ UNCHANGED <<pageVars, restOfExport, adminRecords, currentPage>>

ExportNext ==
    \/ \E n \in 0..MaxRecords : ExportFilter(n)
    \/ \E pg \in 1..totalPages(adminRecords) : ExportGoToPage(pg)
    \/ ExportPrevious
    \/ ExportNextPage
    \/ \E kind \in {"excel", "pdf", "print"} : ExportTo(kind)

SpecExport == ExportInit /\ [][ExportNext]_vars

-----------------------------------------------------------------------------
(* Auth page: the registration form *)

(* Bounds of the registration model *)

MaxRegisters == 1

\* A string is the sequence of its characters; an id is written in decimal
RECURSIVE toString(_)
toString(n) == IF n < 10 THEN <<n>> ELSE Append(toString(n \div 10), n % 10)

\* parseInt of a string of digits; NaN for the empty string
NaN == -1
RECURSIVE parseInt(_)
parseInt(str) ==
    IF str = <<>> THEN NaN
    ELSE IF Len(str) = 1 THEN str[1]
    ELSE parseInt(SubSeq(str, 1, Len(str) - 1)) * 10 + str[Len(str)]

\* What the departments, levels and classes queries list
DepartmentIds == {1, 12}
LevelIds == {2}
ClassIds == {3}

\* What the user types into the text inputs
Names == {<<>>, <<"a">>}
Passwords == {<<>>, <<1, 2, 3, 4, 5>>, <<1, 2, 3, 4, 5, 6>>, <<1, 2, 3, 4, 5, 7>>}

\* defaultValues of registerForm
EmptyRegisterForm ==
    [ fullName |-> <<>>, username |-> <<>>, departmentId |-> <<>>, levelId |-> <<>>,
      classId |-> <<>>, password |-> <<>>, confirmPassword |-> <<>> ]

\* Mutant: the schema without its refinement
registerSchema_NoRefine(data) ==
    /\ Len(data.fullName) >= 1
    /\ Len(data.username) >= 1
    /\ Len(data.departmentId) >= 1
    /\ Len(data.levelId) >= 1
    /\ Len(data.classId) >= 1
    /\ Len(data.password) >= 6
    /\ Len(data.confirmPassword) >= 1

\* registerSchema.safeParse(data).success
registerSchema(data) ==
    /\ Len(data.fullName) >= 1
    /\ Len(data.username) >= 1
    /\ Len(data.departmentId) >= 1
    /\ Len(data.levelId) >= 1
    /\ Len(data.classId) >= 1
    /\ Len(data.password) >= 6
    /\ Len(data.confirmPassword) >= 1
    /\ data.password = data.confirmPassword

\* The argument of registerMutation.mutate in onRegisterSubmit
onRegisterSubmit(data) ==
    [ fullName |-> data.fullName, username |-> data.username,
      departmentId |-> parseInt(data.departmentId), levelId |-> parseInt(data.levelId),
      classId |-> parseInt(data.classId), password |-> data.password, role |-> "student" ]

RegInit ==
    /\ IdleButReg
    /\ registerForm = EmptyRegisterForm
    /\ selectedDepartment = <<>>
    /\ selectedLevel = <<>>
    /\ registerRequests = <<>>

\* The user edits a text input of the form
RegType(field, value) ==
    /\ registerForm[field] # value
    /\ registerForm' = [registerForm EXCEPT ![field] = value]
    /\ UNCHANGED <<pageVars, restOfReg, selectedDepartment, selectedLevel, registerRequests>>

\* The department Select; the watch subscription mirrors it and clears the class
RegSelectDepartment(id) ==
    /\ registerForm' = [registerForm EXCEPT !.departmentId = toString(id), !.classId = <<>>]
    /\ selectedDepartment' = toString(id)
    /\ UNCHANGED <<pageVars, restOfReg, selectedLevel, registerRequests>>

\* The level Select; the watch subscription mirrors it and clears the class
RegSelectLevel(id) ==
    /\ registerForm' = [registerForm EXCEPT !.levelId = toString(id), !.classId = <<>>]
    /\ selectedLevel' = toString(id)
    /\ UNCHANGED <<pageVars, restOfReg, selectedDepartment, registerRequests>>

\* The class Select, disabled until a department and a level are selected
RegSelectClass(id) ==
    /\ selectedDepartment # <<>>
    /\ selectedLevel # <<>>
    /\ registerForm' = [registerForm EXCEPT !.classId = toString(id)]
    /\ UNCHANGED <<pageVars, restOfReg, selectedDepartment, selectedLevel, registerRequests>>

\* registerForm.handleSubmit(onRegisterSubmit): the resolver validates, and
\* only valid data reaches onRegisterSubmit
RegSubmit ==
    /\ Len(registerRequests) < MaxRegisters
    /\ registerSchema(registerForm)
    /\ registerRequests' = Append(registerRequests, onRegisterSubmit(registerForm))
    /\ UNCHANGED <<pageVars, restOfReg, registerForm, selectedDepartment, selectedLevel>>

\* The same submit with data the resolver rejects: field errors, no request
RegSubmitInvalid ==
    /\ ~registerSchema(registerForm)
    /\ UNCHANGED vars

RegNext ==
    \/ \E value \in Names : RegType("fullName", value)
    \/ \E value \in Names : RegType("username", value)
    \/ \E value \in Passwords : RegType("password", value)
    \/ \E value \in Passwords : RegType("confirmPassword", value)
    \/ \E id \in DepartmentIds : RegSelectDepartment(id)
    \/ \E id \in LevelIds : RegSelectLevel(id)
    \/ \E id \in ClassIds : RegSelectClass(id)
    \/ RegSubmit
    \/ RegSubmitInvalid

SpecRegister == RegInit /\ [][RegNext]_vars

-----------------------------------------------------------------------------
(* The forms: system settings, profile, edit teacher *)

(* Bounds of the form model *)

MaxSubmits == 2

DefaultAttendanceWindowSetting == 30
MinProfilePassword == 8
MinTeacherPassword == 6

FormPages == {"settings", "profile", "editTeacher"}

\* What the server can hold for the record a form edits
StoredValues(pg) ==
    IF pg = "settings"
    THEN [defaultAttendanceWindow : {15, 30}, emailNotifications : BOOLEAN]
    ELSE IF pg = "profile"
    THEN {[fullName |-> <<"a">>]}
    ELSE {[fullName |-> <<"a">>, username |-> <<"t">>]}

\* What the user can put into a field
FieldValues(pg, field) ==
    IF field = "defaultAttendanceWindow" THEN {0, 15, 30}
    ELSE IF field = "emailNotifications" THEN BOOLEAN
    ELSE IF field \in {"fullName", "username"} THEN {<<>>, <<"a">>, <<"b">>}
    ELSE IF pg = "profile" THEN {<<>>, <<1, 2, 3, 4, 5, 6, 7>>, <<1, 2, 3, 4, 5, 6, 7, 8>>}
    ELSE {<<>>, <<1, 2, 3, 4, 5>>, <<1, 2, 3, 4, 5, 6>>}

\* defaultValues of useForm, data being the query data at the first render
defaultValues(pg, data) ==
    IF pg = "settings"
    THEN [defaultAttendanceWindow |-> DefaultAttendanceWindowSetting, emailNotifications |-> TRUE]
    ELSE IF pg = "profile"
    THEN [ fullName |-> IF data = None THEN <<>> ELSE data[1].fullName,
           currentPassword |-> <<>>, newPassword |-> <<>>, confirmPassword |-> <<>> ]
    ELSE [fullName |-> <<>>, username |-> <<>>, password |-> <<>>]

\* The argument of form.reset for loaded data
resetValues(pg, data) ==
    IF pg = "settings"
    THEN [ defaultAttendanceWindow |-> data.defaultAttendanceWindow,
           emailNotifications |-> data.emailNotifications ]
    ELSE IF pg = "profile"
    THEN [ fullName |-> data.fullName, currentPassword |-> <<>>, newPassword |-> <<>>,
           confirmPassword |-> <<>> ]
    ELSE [fullName |-> data.fullName, username |-> data.username, password |-> <<>>]

\* The initializer of useState(() => { if (data) form.reset(...) }): it runs
\* at the first render only
AtMount(pg, data) ==
    IF data # None /\ pg \in {"settings", "profile"}
    THEN resetValues(pg, data[1])
    ELSE defaultValues(pg, data)

\* z.string().min(n).optional() of a form value, which is a string
OptionalMin(str, n) == Len(str) >= n

profileSchema(data) ==
    /\ Len(data.fullName) >= 1
    /\ OptionalMin(data.newPassword, MinProfilePassword)
    /\ (data.currentPassword # <<>> \/ data.newPassword # <<>>) =>
          /\ data.currentPassword # <<>>
          /\ data.newPassword # <<>>
          /\ data.confirmPassword # <<>>
    /\ ~(data.newPassword # <<>> /\ data.confirmPassword # <<>>
            /\ data.newPassword # data.confirmPassword)

teacherSchema(data) ==
    /\ Len(data.fullName) >= 1
    /\ Len(data.username) >= 1
    /\ OptionalMin(data.password, MinTeacherPassword)

\* z.preprocess((val) => parseInt(val, 10) || 30, z.number().min(1))
systemSettingsSchema(data) ==
    (IF data.defaultAttendanceWindow = 0 THEN DefaultAttendanceWindowSetting
     ELSE data.defaultAttendanceWindow) >= 1

Valid(pg, data) ==
    IF pg = "settings" THEN systemSettingsSchema(data)
    ELSE IF pg = "profile" THEN profileSchema(data)
    ELSE teacherSchema(data)

\* What the mutation sends for validated data
Payload(pg, data) ==
    IF pg = "settings"
    THEN [ defaultAttendanceWindow |->
              IF data.defaultAttendanceWindow = 0 THEN DefaultAttendanceWindowSetting
              ELSE data.defaultAttendanceWindow,
           emailNotifications |-> data.emailNotifications ]
    ELSE IF pg = "profile"
    THEN IF data.currentPassword # <<>> /\ data.newPassword # <<>>
         THEN [ fullName |-> data.fullName, currentPassword |-> data.currentPassword,
                newPassword |-> data.newPassword ]
         ELSE [fullName |-> data.fullName]
    ELSE IF data.password = <<>>
         THEN [fullName |-> data.fullName, username |-> data.username]
         ELSE [ fullName |-> data.fullName, username |-> data.username,
                password |-> data.password, role |-> "teacher" ]

FormInit ==
    /\ IdleButForm
    /\ formPage \in FormPages
    /\ stored \in StoredValues(formPage)
    /\ formData \in {None, Some(stored)}
    /\ formValues = AtMount(formPage, formData)
    /\ dirtyFields = {}
    /\ isFormDirty = FALSE
    /\ formErrors = FALSE
    /\ updates = <<>>
    /\ submits = 0

\* The data query resolves after the first render; only the edit-teacher form
\* has an effect that resets the form
FormLoaded ==
    /\ formData = None
    /\ formData' = Some(stored)
    /\ IF formPage = "editTeacher"
       THEN formValues' = resetValues(formPage, stored) /\ dirtyFields' = {}
       ELSE UNCHANGED <<formValues, dirtyFields>>
    /\ UNCHANGED <<pageVars, restOfForm, formPage, stored, isFormDirty, formErrors,
                   updates, submits>>

\* The user changes a field; the form is on screen once the data is loaded
FormEdit(field, value) ==
    /\ formData # None
    /\ field \in DOMAIN formValues
    /\ formValues[field] # value
    /\ formValues' = [formValues EXCEPT ![field] = value]
    /\ dirtyFields' = dirtyFields \cup {field}
    /\ isFormDirty' = TRUE
    /\ UNCHANGED <<pageVars, restOfForm, formPage, stored, formData, formErrors, updates,
                   submits>>

\* Cancel of the profile page: form.reset to userData
FormCancel ==
    /\ formPage = "profile"
    /\ formData # None
    /\ formValues' = resetValues(formPage, formData[1])
    /\ dirtyFields' = {}
    /\ UNCHANGED <<pageVars, restOfForm, formPage, stored, formData, isFormDirty,
                   formErrors, updates, submits>>

\* form.handleSubmit(onSubmit): the resolver validates; valid data goes to the
\* mutation, invalid data gives field errors.  The settings button is disabled
\* until the form is dirty.
FormSubmit ==
    /\ formData # None
    /\ formPage = "settings" => isFormDirty
    /\ submits < MaxSubmits
    /\ submits' = submits + 1
    /\ IF Valid(formPage, formValues)
       THEN /\ updates' = Append(updates, Payload(formPage, formValues))
            /\ formErrors' = FALSE
       ELSE /\ formErrors' = TRUE
            /\ UNCHANGED updates
    /\ UNCHANGED <<pageVars, restOfForm, formPage, stored, formData, formValues, dirtyFields,
                   isFormDirty>>

FormNext ==
    \/ FormLoaded
    \/ \E field \in {"defaultAttendanceWindow", "emailNotifications", "fullName", "username",
                     "password", "currentPassword", "newPassword", "confirmPassword"} :
          \E value \in FieldValues(formPage, field) : FormEdit(field, value)
    \/ FormCancel
    \/ FormSubmit

SpecForm == FormInit /\ [][FormNext]_vars

-----------------------------------------------------------------------------
(* Admin teachers: updateTeacherDepartments *)

(* Bounds of the departments model *)

MaxDepartments == 3
MaxCalls == 2

Departments == 1..MaxDepartments

\* Array.prototype.includes
includes(seq, x) == \E i \in 1..Len(seq) : seq[i] = x

Range(seq) == {seq[i] : i \in 1..Len(seq)}

\* The values of the additionalDepartments field: the checked departments in
\* the order they were checked
RECURSIVE Orderings(_)
Orderings(set) ==
    IF set = {} THEN {<<>>}
    ELSE UNION {{Append(seq, x) : seq \in Orderings(set \ {x})} : x \in set}

RequestedLists == UNION {Orderings(set) : set \in SUBSET Departments}

\* Mutant: every current department is removed
deptsToRemove_All(currentDeptIds, additionalDepartments) == currentDeptIds

deptsToRemove(currentDeptIds, additionalDepartments) ==
    SelectSeq(currentDeptIds, LAMBDA id : ~includes(additionalDepartments, id))

deptsToAdd(currentDeptIds, additionalDepartments) ==
    SelectSeq(additionalDepartments, LAMBDA id : ~includes(currentDeptIds, id))

NoCall ==
    [ pc |-> "idle", requested |-> <<>>, current |-> <<>>, toRemove |-> <<>>,
      toAdd |-> <<>>, result |-> "none", again |-> FALSE ]

\* The function from the top of its loops on: the next awaited apiRequest, or
\* past the loops return true
Advance(call, log) ==
    IF call.toRemove # <<>>
    THEN /\ deptCall' = [call EXCEPT !.pc = "remove"]
         /\ deptLog' = Append(log, [method |-> "DELETE", departmentId |-> Head(call.toRemove)])
    ELSE IF call.toAdd # <<>>
    THEN /\ deptCall' = [call EXCEPT !.pc = "add"]
         /\ deptLog' = Append(log, [method |-> "POST", departmentId |-> Head(call.toAdd)])
    ELSE /\ deptCall' = [call EXCEPT !.pc = "done", !.result = "true"]
         /\ deptLog' = log

DeptInit ==
    /\ IdleButDept
    /\ teacherDepartments \in SUBSET Departments
    /\ deptCall = NoCall
    /\ deptLog = <<>>
    /\ deptCalls = 0

\* updateTeacherDepartments(teacherId, additionalDepartments) up to its fetch;
\* again records that the call before returned true for the same departments
DeptCall(additionalDepartments) ==
    /\ deptCall.pc \in {"idle", "done"}
    /\ deptCalls < MaxCalls
    /\ deptCalls' = deptCalls + 1
    /\ deptCall' = [ NoCall EXCEPT !.pc = "fetch", !.requested = additionalDepartments,
                     !.again = /\ deptCall.result = "true"
                               /\ Range(deptCall.requested) = Range(additionalDepartments) ]
    /\ deptLog' = <<>>
    /\ UNCHANGED <<pageVars, restOfDept, teacherDepartments>>

\* The GET of the current departments resolves
DeptFetched(outcome) ==
    /\ deptCall.pc = "fetch"
    /\ IF outcome = "ok"
       THEN LET currentDeptIds == SortedKeys(teacherDepartments)
            IN  Advance([deptCall EXCEPT
                            !.current = currentDeptIds,
                            !.toRemove = deptsToRemove(currentDeptIds, deptCall.requested),
                            !.toAdd = deptsToAdd(currentDeptIds, deptCall.requested)],
                        deptLog)
       ELSE /\ deptCall' = [deptCall EXCEPT !.pc = "done", !.result = "false"]
            /\ UNCHANGED deptLog
    /\ UNCHANGED <<pageVars, restOfDept, teacherDepartments, deptCalls>>

\* The awaited DELETE resolves: the loop goes on, or the catch returns false
DeptDeleted(outcome) ==
    /\ deptCall.pc = "remove"
    /\ IF apiRequestThrows(outcome)
       THEN /\ deptCall' = [deptCall EXCEPT !.pc = "done", !.result = "false"]
            /\ UNCHANGED <<deptLog, teacherDepartments>>
       ELSE /\ teacherDepartments' = teacherDepartments \ {Head(deptCall.toRemove)}
            /\ Advance([deptCall EXCEPT !.toRemove = Tail(@)], deptLog)
    /\ UNCHANGED <<pageVars, restOfDept, deptCalls>>

\* The awaited POST resolves: the loop goes on, or the catch returns false
DeptAdded(outcome) ==
    /\ deptCall.pc = "add"
    /\ IF apiRequestThrows(outcome)
       THEN /\ deptCall' = [deptCall EXCEPT !.pc = "done", !.result = "false"]
            /\ UNCHANGED <<deptLog, teacherDepartments>>
       ELSE /\ teacherDepartments' = teacherDepartments \cup {Head(deptCall.toAdd)}
            /\ Advance([deptCall EXCEPT !.toAdd = Tail(@)], deptLog)
    /\ UNCHANGED <<pageVars, restOfDept, deptCalls>>

DeptNext ==
    \/ \E additionalDepartments \in RequestedLists : DeptCall(additionalDepartments)
    \/ \E outcome \in Outcomes : DeptFetched(outcome)
    \/ \E outcome \in Outcomes : DeptDeleted(outcome)
    \/ \E outcome \in Outcomes : DeptAdded(outcome)

SpecDept == DeptInit /\ [][DeptNext]_vars

-----------------------------------------------------------------------------
(* Admin system settings: deleting a backup *)

(* Bound of the backups model *)

MaxPrompts == 2

\* 'pre-restore', as its characters
PreRestore == <<"p", "r", "e", "-", "r", "e", "s", "t", "o", "r", "e">>

\* The file names the backup list can hold, as their characters
Filenames ==
    { PreRestore \o <<"-", "1">>,
      PreRestore,
      <<"p", "r", "e", "-", "1">>,
      <<"m", "-", "1">> }

\* String.prototype.startsWith
startsWith(s, prefix) ==
    /\ Len(s) >= Len(prefix)
    /\ SubSeq(s, 1, Len(prefix)) = prefix

\* Mutant: the Delete button is never disabled
DeleteDisabled_Never(filename) == FALSE

\* disabled of the Delete button of a row
DeleteDisabled(filename) == startsWith(filename, PreRestore)

NoPrompt == <<>>

BackupInit ==
    /\ IdleButBackup
    /\ backups = {}
    /\ confirmPrompt = NoPrompt
    /\ answers = <<>>
    /\ deleteRequests = <<>>
    /\ deletePending = <<>>

\* The backups query resolves, at mount or after refetchBackups()
BackupsLoaded(list) ==
    /\ confirmPrompt = NoPrompt
    /\ backups' = list
    /\ UNCHANGED <<pageVars, restOfBackup, confirmPrompt, answers, deleteRequests, deletePending>>

\* Click on the Delete button of a row: handleDeleteBackup up to window.confirm
DeleteBackupClick(filename) ==
    /\ confirmPrompt = NoPrompt
    /\ filename \in backups
    /\ ~DeleteDisabled(filename)
    /\ Len(answers) < MaxPrompts
    /\ confirmPrompt' = filename
    /\ UNCHANGED <<pageVars, restOfBackup, backups, answers, deleteRequests, deletePending>>

\* window.confirm returns: handleDeleteBackup mutates when it returned true
handleDeleteBackup(accepted) ==
    /\ confirmPrompt # NoPrompt
    /\ answers' = Append(answers, [filename |-> confirmPrompt, accepted |-> accepted])
    /\ confirmPrompt' = NoPrompt
    /\ IF accepted
       THEN /\ deleteRequests' = Append(deleteRequests, confirmPrompt)
            /\ deletePending' = Append(deletePending, confirmPrompt)
       ELSE UNCHANGED <<deleteRequests, deletePending>>
    /\ UNCHANGED <<pageVars, restOfBackup, backups>>

\* The oldest DELETE settles: onSuccess refetches the list, onError toasts
DeleteBackupSettled(outcome) ==
    /\ confirmPrompt = NoPrompt
    /\ deletePending # <<>>
    /\ deletePending' = Tail(deletePending)
    /\ IF apiRequestThrows(outcome)
       THEN UNCHANGED backups
       ELSE backups' = backups \ {Head(deletePending)}
    /\ UNCHANGED <<pageVars, restOfBackup, confirmPrompt, answers, deleteRequests>>

BackupNext ==
    \/ \E list \in SUBSET Filenames : BackupsLoaded(list)
    \/ \E filename \in Filenames : DeleteBackupClick(filename)
    \/ \E accepted \in BOOLEAN : handleDeleteBackup(accepted)
    \/ \E outcome \in Outcomes : DeleteBackupSettled(outcome)

SpecBackup == BackupInit /\ [][BackupNext]_vars

-----------------------------------------------------------------------------
(* MarkAttendanceModal, and the specification of the two mark dialogs *)

(* Bound of the modal model *)

MaxMarks == 3

\* Mutant: the I'm Present button is never disabled
ConfirmDisabled_Never(marking) == FALSE

\* disabled of the I'm Present button
ConfirmDisabled(marking) == marking

\* The parent passes a lesson and isOpen
ModalOpen(l) ==
    /\ modalMounted
    /\ ~modalOpen
    /\ modalLesson' = Some(l)
    /\ modalOpen' = TRUE
    /\ UNCHANGED <<pageVars, restOfModal, modalMounted, isMarking, markInflight, markRequests,
                   modalToast>>

\* The dialog's onOpenChange: onClose()
ModalClose ==
    /\ modalMounted
    /\ modalOpen
    /\ modalOpen' = FALSE
    /\ UNCHANGED <<pageVars, restOfModal, modalMounted, modalLesson, isMarking, markInflight,
                   markRequests, modalToast>>

\* The I'm Present button: handleMarkAttendance and mutationFn up to its await
ModalMarkAttendance ==
    /\ modalMounted
    /\ modalOpen
    /\ modalLesson # None
    /\ ~ConfirmDisabled(isMarking)
    /\ markRequests < MaxMarks
    /\ isMarking' = TRUE
    /\ markInflight' = markInflight + 1
    /\ markRequests' = markRequests + 1
    /\ UNCHANGED <<pageVars, restOfModal, modalMounted, modalLesson, modalOpen, modalToast>>

\* mutationFn after its await: onSuccess or onError, then onSettled
ModalSettled(outcome) ==
    /\ modalMounted
    /\ markInflight > 0
    /\ markInflight' = markInflight - 1
    /\ IF apiRequestThrows(outcome)
       THEN /\ modalToast' = "Error"
            /\ UNCHANGED modalOpen
       ELSE /\ modalToast' = "Success"
            /\ modalOpen' = FALSE
    /\ isMarking' = FALSE
    /\ UNCHANGED <<pageVars, restOfModal, modalMounted, modalLesson, markRequests>>

\* Either the student lessons page is open, or a parent has mounted the modal
MarkInit ==
    \/ /\ Init
       /\ page = "studentLessons"
    \/ /\ IdleButModal
       /\ modalMounted = TRUE
       /\ modalLesson = None
       /\ modalOpen = FALSE
       /\ isMarking = FALSE
       /\ markInflight = 0
       /\ markRequests = 0
       /\ modalToast = ""

MarkNext ==
    \/ Tick
    \/ ListRerender
    \/ \E id \in LessonIds : ListClickMarkPresent(id)
    \/ ListClose
    \/ ListConfirm
    \/ \E r \in inflight, outcome \in Outcomes : ListResponse(r, outcome)
    \/ ListRefetchArrives
    \/ \E l \in LessonIds : ModalOpen(l)
    \/ ModalClose
    \/ ModalMarkAttendance
    \/ \E outcome \in Outcomes : ModalSettled(outcome)

SpecMark == MarkInit /\ [][MarkNext]_vars

-----------------------------------------------------------------------------
(* Bulk attendance: the page on its own, with what the browser schedules *)

BulkInit ==
    /\ Init
    /\ page = "bulk"

BulkNext ==
    \/ BulkLoaded
    \/ \E s \in Students, st \in Statuses : BulkToggle(s, st)
    \/ BulkToggleForce
    \/ BulkSaveAll
    \/ \E r \in inflight, outcome \in Outcomes : BulkResponse(r, outcome)
    \/ \E k \in 1..MaxClicks : BulkPauseDone(k)
    \/ BulkRecordsArrive

\* Queries and requests settle and the 100 ms timers fire; clicks are the
\* user's and have no fairness
BulkFairness ==
    /\ WF_vars(BulkLoaded)
    /\ WF_vars(\E r \in inflight, outcome \in Outcomes : BulkResponse(r, outcome))
    /\ \A k \in 1..MaxClicks : WF_vars(BulkPauseDone(k))
    /\ WF_vars(BulkRecordsArrive)

SpecBulk == BulkInit /\ [][BulkNext]_vars /\ BulkFairness

-----------------------------------------------------------------------------
(* Claims about the eligibility predicates (SpecWindow) *)

\* The window length a claim states: the lesson's own, or d when missing or 0
ClaimedWindow(l, d) ==
    IF l.attendanceWindowMinutes = None \/ l.attendanceWindowMinutes[1] = 0
    THEN d ELSE l.attendanceWindowMinutes[1]

\* The claimed window of a weekly lesson: same weekday, start <= now <= start + w
InClaimedWindow(l, t, w) ==
    /\ l.dayOfWeek = DayOf(t)
    /\ l.startTimeMinutes <= MinutesOfDay(t)
    /\ MinutesOfDay(t) <= l.startTimeMinutes + w

IsRegular(l, t) == l.createdAt = None \/ t - l.createdAt[1] >= 24 * 60

\* C1: in the student lessons list canMarkAttendance(lesson) is true exactly
\* when the lesson is today's, start <= now <= start + W (inclusive) with W the
\* lesson's window or 15 when missing or 0, and the lesson has no attendance.
C1_CanMarkExactly ==
    canMark = ( /\ InClaimedWindow(lesson, now, ClaimedWindow(lesson, 15))
                /\ ~lesson.attendance )

C1_Witness ==
    /\ lesson.attendanceWindowMinutes = None
    /\ MinutesOfDay(now) = lesson.startTimeMinutes + 15
    /\ canMark

\* C2: in the student dashboard, for a regular lesson, isAttendanceWindowOpen
\* is true exactly when the lesson is today's and start <= now <= start + W
\* (inclusive) with W the lesson's window or 30 when missing or 0, whatever the
\* attendance already recorded.
C2_RegularWindowExactly ==
    IsRegular(lesson, now) =>
        windowOpen = InClaimedWindow(lesson, now, ClaimedWindow(lesson, 30))

C2_Witness ==
    /\ lesson.createdAt # None
    /\ IsRegular(lesson, now)
    /\ lesson.attendanceWindowMinutes = Some(0)
    /\ MinutesOfDay(now) = lesson.startTimeMinutes + 30
    /\ hasMarked
    /\ windowOpen

\* The instant at which today's occurrence of the lesson starts
StartInstant(l, t) == (t \div MinutesPerDay) * MinutesPerDay + l.startTimeMinutes

\* C5: for an instant lesson (created less than 24 hours ago) the dashboard
\* allows marking, on the lesson's weekday, from the creation time until the
\* later of start + W and creation time + W, and at no later time.
C5_InstantWindow ==
    (lesson.createdAt # None /\ ~IsRegular(lesson, now)) =>
        windowOpen =
            ( /\ lesson.dayOfWeek = DayOf(now)
              /\ lesson.createdAt[1] <= now
              /\ now <= Max(StartInstant(lesson, now) + ClaimedWindow(lesson, 30),
                            lesson.createdAt[1] + ClaimedWindow(lesson, 30)) )

\* C10: the two student-side checks differ.  For a regular, unmarked lesson of
\* today without a window of its own, the dashboard permits marking and the
\* lessons list forbids it more than 15 and at most 30 minutes after the start;
\* for an instant lesson the dashboard permits marking before the start; and a
\* lesson marked according to lesson.attendance only is still permitted by the
\* dashboard.
C10_ChecksDiffer ==
    /\ ( /\ IsRegular(lesson, now)
         /\ ClaimedWindow(lesson, 0) = 0
         /\ lesson.dayOfWeek = DayOf(now)
         /\ MinutesOfDay(now) > lesson.startTimeMinutes + 15
         /\ MinutesOfDay(now) <= lesson.startTimeMinutes + 30
         /\ ~lesson.attendance /\ ~hasMarked )
       => ((windowOpen /\ ~hasMarked) /\ ~canMark)
    /\ ( /\ ~IsRegular(lesson, now)
         /\ lesson.dayOfWeek = DayOf(now)
         /\ MinutesOfDay(now) < lesson.startTimeMinutes
         /\ ~hasMarked )
       => ((windowOpen /\ ~hasMarked) /\ ~canMark)
    /\ ( /\ InClaimedWindow(lesson, now, ClaimedWindow(lesson, 15))
         /\ lesson.attendance /\ ~hasMarked )
       => ((windowOpen /\ ~hasMarked) /\ ~canMark)

C10_Witness ==
    /\ IsRegular(lesson, now)
    /\ lesson.attendanceWindowMinutes = None
    /\ MinutesOfDay(now) = lesson.startTimeMinutes + 16
    /\ ~lesson.attendance
    /\ windowOpen /\ ~hasMarked /\ ~canMark

-----------------------------------------------------------------------------
(* Claims about the pages (Spec) *)

StudentPages == {"studentDashboard", "studentLessons"}

\* The request a step issues, if it issues one
Issued == posts'[Len(posts')]
Issues == Len(posts') > Len(posts)

\* C3: from the student pages at most one POST /api/attendance is ever issued
\* for a student and a lesson.
C3_OnePostPerLesson ==
    \A i, j \in 1..Len(posts) :
        ( /\ i < j
          /\ posts[i].page \in StudentPages
          /\ posts[j].page \in StudentPages
          /\ posts[i].studentId = posts[j].studentId )
        => posts[i].lessonId # posts[j].lessonId

\* C4: a student page issues a POST /api/attendance only at a time at which
\* its own predicate (isAttendanceWindowOpen, canMarkAttendance) holds for the
\* lesson.
C4_PostsWithinWindow ==
    [][ Issues =>
          /\ Issued.page = "studentDashboard" =>
                isAttendanceWindowOpen(LessonById(Issued.lessonId), now)
          /\ Issued.page = "studentLessons" =>
                canMarkAttendance(LessonAsFetched(Issued.lessonId, todaysAttendance), now)
      ]_vars

\* The requests a step sends
Sent == inflight' \ inflight

\* C6: a request carries force = true only if the bulk page sends it while its
\* 'Override attendance window' checkbox is checked; no other page sends one.
C6_ForceOnlyFromBulkOverride ==
    [][ \A r \in Sent : r.force => (r.page = "bulk" /\ forceAttendance) ]_vars

\* One run of the bulk page has sent a request without force and, the checkbox
\* having been checked in between, a later one with force
C6_Witness ==
    \E k \in 1..Len(runs) :
        /\ runs[k].pc # "done"
        /\ \E i, j \in 1..Len(runs[k].sent) :
              /\ i < j
              /\ ~runs[k].sent[i].force
              /\ runs[k].sent[j].force
        /\ \E r \in inflight : r.page = "bulk" /\ r.force

\* The invocations of saveAllAttendance that are inside their for loop
Looping == {k \in 1..Len(runs) : runs[k].pc \in {"request", "pause"}}

\* C7: the bulk page has at most one POST /api/attendance in flight and at
\* most one saveAllAttendance loop running.
C7_BulkSequential ==
    /\ Cardinality({r \in inflight : r.page = "bulk"}) <= 1
    /\ Cardinality(Looping) <= 1

\* The students a run has sent a request for
SentStudents(run) == {run.sent[i].studentId : i \in 1..Len(run.sent)}

\* C8: a saveAllAttendance run sends one request for each student that has an
\* entry in attendanceData when the run starts, with that entry's status, none
\* twice, goes on after a failure, and ends its loop with successful + failed
\* equal to the number of those students.
C8_OneRequestPerMarkedStudent ==
    \A k \in Running :
        LET run == runs[k] IN
        /\ \A i \in 1..Len(run.sent) :
              /\ run.sent[i].studentId \in DOMAIN run.data
              /\ run.sent[i].status = run.data[run.sent[i].studentId]
              /\ run.sent[i].run = k
        /\ \A i, j \in 1..Len(run.sent) :
              i < j => run.sent[i].studentId # run.sent[j].studentId
        /\ run.successful + run.failed <= Len(run.sent)
        /\ run.pc = "refresh" =>
              /\ SentStudents(run) = DOMAIN run.data
              /\ run.successful + run.failed = Cardinality(DOMAIN run.data)

\* A run past its loop over two students, one request failed and one
\* succeeded, the page's attendanceData changed since the run started
C8_Witness ==
    \E k \in Running :
        /\ runs[k].pc = "refresh"
        /\ Cardinality(DOMAIN runs[k].data) = 2
        /\ runs[k].failed = 1
        /\ runs[k].successful = 1
        /\ attendanceData # runs[k].data

\* A step in which a mark request fails
Fails == failures' > failures

\* C9: when a mark request fails, the page that sent it shows an error, a toast
\* or the inline message of the dialog.
C9_FailuresAreShown ==
    [][ Fails => (toasts'.error > toasts.error \/ InlineErrorVisible') ]_vars

-----------------------------------------------------------------------------
(* Claims about the router (SpecRoute) *)

\* The protected routes whose page component is on the screen
ShownRoutes == {i \in DOMAIN RouteTable : RouteTable[i].protected /\ shown = RouteTable[i].component}

AdminPages == {RouteTable[i].component : i \in {j \in DOMAIN RouteTable : RouteTable[j].allowedRoles = {"admin"}}}

\* C11: ProtectedRoute renders the page component of a route only when the
\* auth query has finished loading, a user is logged in and the user's role,
\* whatever string it is, is in the route's allowedRoles (or allowedRoles is
\* empty); an /admin page is rendered only for role admin.
C11_RendersOnlyForAllowedRoles ==
    /\ \A i \in ShownRoutes :
          /\ ~authLoading
          /\ user # None
          /\ RouteTable[i].allowedRoles = {} \/ user[1] \in RouteTable[i].allowedRoles
    /\ shown \in AdminPages => user = Some("admin")

\* Nothing is left to load or to follow: the screen is the final one
Settled == ~authLoading /\ Router(location, authLoading, user).redirect = None

\* C15: a logged-in student, teacher or admin at an address of the route table
\* ends, after at most one redirect, on a page whose allowedRoles contain the
\* role; the auth page and ProtectedRoute send every role to the same home.
C15_OneRedirectToAllowedPage ==
    /\ \A role \in Roles : AuthRedirect(role) = redirectPath(role)
    /\ (user # None /\ user[1] \in AllRoles /\ MatchedRoute(location) # 0) =>
          /\ redirects <= 1
          /\ Settled =>
                /\ ShownRoutes = {MatchedRoute(location)}
                /\ user[1] \in RouteTable[MatchedRoute(location)].allowedRoles

\* A teacher who opened a page of another role is on the teacher dashboard
\* after one redirect
C15_Witness ==
    /\ user = Some("teacher")
    /\ redirects = 1
    /\ Settled
    /\ shown = "TeacherDashboard"

-----------------------------------------------------------------------------
(* Claims about the admin exports (SpecExport) *)

\* C12: an Excel, PDF or print export of the admin attendance records has one
\* row for every record that matches the selected filters, whatever page of
\* the table is displayed.
C12_ExportsAllMatchingRecords ==
    [][ exported' # exported =>
          exported'[1].data = [i \in 1..Len(adminRecords) |-> ExportRow(adminRecords[i])]
      ]_vars

-----------------------------------------------------------------------------
(* Claims about the pages under fair scheduling (SpecFair) *)

\* The server holds an attendance record of the student for the lesson
MarkedOnServer(id) == \E x \in serverRecords : x.lessonId = id /\ x.studentId = UserId

\* C13: once a mark of the student dashboard has succeeded, the dashboard comes
\* to show the lesson as marked (hasMarkedAttendance(lesson) true, the row no
\* longer selectable) without any further user action.
C13_DashboardShowsMarked ==
    \A id \in LessonIds :
        (page = "studentDashboard" /\ MarkedOnServer(id))
            ~> hasMarkedAttendance(LessonById(id), attendanceRecords)

-----------------------------------------------------------------------------
(* Claims about the registration form (SpecRegister) *)

\* C14: every register request the auth page sends has role "student", a
\* password of at least 6 characters that equals the confirmation of the form,
\* and department, level and class ids that are ids, not empty.
C14_RegistersStudentsOnly ==
    [][ Len(registerRequests') > Len(registerRequests) =>
          LET request == registerRequests'[Len(registerRequests')] IN
          /\ request.role = "student"
          /\ Len(request.password) >= 6
          /\ request.password = registerForm.confirmPassword
          /\ request.departmentId \in DepartmentIds
          /\ request.levelId \in LevelIds
          /\ request.classId \in ClassIds
      ]_vars

\* A registration for department 12 has been sent
C14_Witness ==
    /\ Len(registerRequests) = 1
    /\ registerRequests[1].departmentId = 12
    /\ registerRequests[1].role = "student"

-----------------------------------------------------------------------------
(* Claims about the forms (SpecForm) *)

\* A step that submits the form
Submits == submits' > submits

\* A step that sends an update
Updates == Len(updates') > Len(updates)

\* A payload has the stored value in every field the user did not edit
SendsStored(payload) ==
    \A field \in (DOMAIN stored) \ dirtyFields : payload[field] = stored[field]

\* C16: on the system settings page and the profile page the form is reset to
\* the loaded values when the query resolves after the mount, and a later save
\* submits the stored value of every field the user did not edit.
C16_FormResetToLoadedValues ==
    [][ (formPage \in {"settings", "profile"}) =>
          /\ (formData = None /\ formData' # None) =>
                formValues' = resetValues(formPage, formData'[1])
          /\ Updates => SendsStored(updates'[Len(updates')])
      ]_vars

PasswordFields == {"password", "currentPassword", "newPassword"}

\* The password fields of the form are empty and its other fields are valid
PasswordLeftEmpty ==
    IF formPage = "profile"
    THEN /\ formValues.currentPassword = <<>>
         /\ formValues.newPassword = <<>>
         /\ formValues.confirmPassword = <<>>
         /\ formValues.fullName # <<>>
    ELSE /\ formValues.password = <<>>
         /\ formValues.fullName # <<>>
         /\ formValues.username # <<>>

\* C17: in the profile form and the edit-teacher form a submit with the
\* password fields left empty passes validation and sends an update without a
\* password field.
C17_EmptyPasswordKeepsPassword ==
    [][ (formPage \in {"profile", "editTeacher"} /\ Submits /\ PasswordLeftEmpty) =>
          /\ Updates
          /\ PasswordFields \cap DOMAIN updates'[Len(updates')] = {}
      ]_vars

-----------------------------------------------------------------------------
(* Claims about updateTeacherDepartments (SpecDept) *)

\* The departments the requests of a method were issued for, and how often
Issuances(method, d) ==
    Cardinality({i \in 1..Len(deptLog) :
                    deptLog[i].method = method /\ deptLog[i].departmentId = d})

\* C18: when updateTeacherDepartments returns true it has issued one DELETE for
\* each department in current minus requested and no other, one POST for each
\* department in requested minus current and no other, every DELETE before
\* every POST, and the teacher's departments are the requested ones; a call
\* that repeats the departments of a call that returned true issues nothing.
C18_AppliesTheDifference ==
    (deptCall.pc = "done" /\ deptCall.result = "true") =>
        LET current == Range(deptCall.current)
            requested == Range(deptCall.requested)
        IN  /\ \A d \in Departments :
                  /\ Issuances("DELETE", d) = IF d \in current \ requested THEN 1 ELSE 0
                  /\ Issuances("POST", d) = IF d \in requested \ current THEN 1 ELSE 0
            /\ \A i, j \in 1..Len(deptLog) :
                  (deptLog[i].method = "DELETE" /\ deptLog[j].method = "POST") => i < j
            /\ teacherDepartments = requested
            /\ deptCall.again => deptLog = <<>>

\* A call has returned true after a DELETE and a POST
C18_Witness ==
    /\ deptCall.pc = "done"
    /\ deptCall.result = "true"
    /\ \E d \in Departments : Issuances("DELETE", d) = 1
    /\ \E d \in Departments : Issuances("POST", d) = 1

-----------------------------------------------------------------------------
(* Claims about deleting a backup (SpecBackup) *)

\* C19: a DELETE request for a backup is issued only for a file name that does
\* not start with 'pre-restore', and only in the step in which the user
\* accepted the confirmation prompt for that same file name.
C19_DeleteOnlyConfirmed ==
    [][ (deleteRequests' # deleteRequests) =>
            \E filename \in Filenames :
                /\ deleteRequests' = Append(deleteRequests, filename)
                /\ ~startsWith(filename, PreRestore)
                /\ confirmPrompt = filename
                /\ answers' = Append(answers, [filename |-> filename, accepted |-> TRUE]) ]_vars

\* A DELETE has been issued after a prompt was declined
C19_Witness ==
    /\ deleteRequests # <<>>
    /\ \E i \in 1..Len(answers) : ~answers[i].accepted

-----------------------------------------------------------------------------
(* Claims about the two mark dialogs (SpecMark) *)

\* C20: in the dialog of the student lessons list and in MarkAttendanceModal
\* the confirm button is disabled exactly while a mark request of the dialog
\* is in flight, so each dialog has at most one request in flight and the
\* button is enabled again once a request has failed.
C20_ConfirmDisabledWhileInFlight ==
    /\ (page = "studentLessons") =>
          /\ Cardinality(inflight) <= 1
          /\ isPending <=> (inflight # {})
    /\ modalMounted =>
          /\ markInflight <= 1
          /\ isMarking <=> (markInflight = 1)

\* In the modal a request failed, the button was enabled again, and the next
\* request is in flight
C20_Witness ==
    /\ modalMounted
    /\ modalToast = "Error"
    /\ markRequests = 2
    /\ markInflight = 1
    /\ isMarking

-----------------------------------------------------------------------------
(* Claims about saveAllAttendance (SpecBulk) *)

\* The invocations of saveAllAttendance that have returned
Finished == {k \in 1..Len(runs) : runs[k].pc = "done"}

\* C21: saveAllAttendance always finishes when every request settles: past its
\* loop an invocation has made one iteration and sent one request for each
\* student marked in its attendanceData (none for an empty one), every
\* invocation that returned has shown one summary toast, isSaving is false
\* once no invocation is running, and a running invocation eventually returns.
C21_SaveAllFinishes ==
    /\ [](\A k \in 1..Len(runs) :
             (runs[k].pc = "refresh") =>
                 /\ runs[k].successful + runs[k].failed = Cardinality(DOMAIN runs[k].data)
                 /\ Len(runs[k].sent) = Cardinality(DOMAIN runs[k].data)
                 /\ runs[k].todo = <<>>)
    /\ [](toasts.summary = Cardinality(Finished))
    /\ []((Running = {}) => ~isSaving)
    /\ (Running # {}) ~> (Running = {} /\ ~isSaving)

\* An invocation has returned after one of its requests failed
C21_Witness ==
    /\ page = "bulk"
    /\ Finished # {}
    /\ Running = {}
    /\ failures > 0
    /\ toasts.summary = 1
    /\ ~isSaving

-----------------------------------------------------------------------------
(* Claim about midnight (SpecWindow) *)

\* C22: neither student-side predicate carries a window across midnight: at
\* every time whose day of week differs from the lesson's dayOfWeek, also
\* within startTimeMinutes + W of a lesson whose window runs past 23:59,
\* isAttendanceWindowOpen and canMarkAttendance are false.
C22_NoWindowAcrossMidnight ==
    (lesson.dayOfWeek # DayOf(now)) => (~windowOpen /\ ~canMark)

\* A minute after midnight that the unmarked lesson's window of the day
\* before would cover, and both predicates are false
C22_Witness ==
    /\ lesson.dayOfWeek = 0
    /\ DayOf(now) = 1
    /\ now \div MinutesPerDay = 1
    /\ lesson.attendanceWindowMinutes # None
    /\ lesson.attendanceWindowMinutes[1] > 0
    /\ MinutesOfDay(now) + MinutesPerDay
          <= lesson.startTimeMinutes + lesson.attendanceWindowMinutes[1]
    /\ ~lesson.attendance
    /\ ~hasMarked
    /\ ~windowOpen
    /\ ~canMark

====
